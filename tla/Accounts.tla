------------------------------ MODULE Accounts ------------------------------
(***************************************************************************)
(* The classes of account: what each signs with, the authenticator it      *)
(* puts around a signature, and what its verifySignature says.  A curve is *)
(* external: a signature is the key it was made with and the message, and  *)
(* verifies for nothing else.                                              *)
(*                                                                         *)
(* A public key is a sequence of single keys of which `required` must      *)
(* sign, an account holds the private keys at the positions `bits` of it.  *)
(* The signatures of an account are a function on positions: that they are *)
(* stored in the order of the bits is SubmittedIsSigned of SignAndSubmit.  *)
(***************************************************************************)
EXTENDS Integers, FiniteSets, Sequences

CONSTANT Nothing      \* what is undefined in the code

Key(curve, id) == [curve |-> curve, id |-> id]
PublicKey(class, keys, required) == [class |-> class, keys |-> keys, required |-> required]

(* MultiKey and MultiAuthKeyPublicKey normalize their keys, an account     *)
(* authenticator those of a keyless account.                               *)
AnyPublicKey(key) == PublicKey("AnyPublicKey", <<key>>, 1)
Normalized(publicKey) ==
  IF publicKey.class = "KeylessPublicKey" THEN AnyPublicKey(publicKey.keys[1]) ELSE publicKey

(* An address is the hash of the key it was first derived from.            *)
derivedAddress(publicKey) == <<Normalized(publicKey)>>
AddressOr(address, publicKey) == IF address # Nothing THEN address ELSE derivedAddress(publicKey)

(* What an account is, and the classes of what it signs with.              *)
Account(class, publicKey, bits, address, signature, authenticator) ==
  [class |-> class, publicKey |-> publicKey, bits |-> bits,
   accountAddress |-> AddressOr(address, publicKey),
   signature |-> signature, authenticator |-> authenticator]

Ed25519Account(key, address) ==
  Account("Ed25519Account", PublicKey("Ed25519PublicKey", <<key>>, 1), {1}, address,
          "Ed25519Signature", "AccountAuthenticatorEd25519")
SingleKeyAccount(key, address) ==
  Account("SingleKeyAccount", AnyPublicKey(key), {1}, address,
          "AnySignature", "AccountAuthenticatorSingleKey")
KeylessAccount(key, address) ==
  Account("KeylessAccount", PublicKey("KeylessPublicKey", <<key>>, 1), {1}, address,
          "KeylessSignature", "AccountAuthenticatorSingleKey")

fromPrivateKey(key, address, legacy) ==
  IF key.curve = "Ed25519" /\ legacy
    THEN Ed25519Account(key, address)
    ELSE SingleKeyAccount(key, address)

(* A signer stands at the first position with its key.                     *)
getIndex(keys, key) == CHOOSE i \in DOMAIN keys :
                         keys[i] = key /\ \A j \in 1..(i - 1) : keys[j] # key

MultiKeyAccount(keys, required, signers) ==
  Account("MultiKeyAccount", PublicKey("MultiKey", keys, required),
          {getIndex(keys, signers[i]) : i \in DOMAIN signers}, Nothing,
          "MultiKeySignature", "AccountAuthenticatorMultiKey")

(* The account of an address that several keys control together; it has no *)
(* other keys than those of its signers.                                   *)
MultiAuthKeyAccount(sender, signers) ==
  Account("MultiAuthKeyAccount", PublicKey("MultiAuthKeyPublicKey", signers, Len(signers)),
          DOMAIN signers, sender, "MultiAuthKeySignature", "AccountAuthenticatorMultiAuthKey")

(* What the classes have in common, of what they make.                     *)
Classes ==
  {<<"Ed25519Account", "Ed25519PublicKey", "Ed25519Signature", "AccountAuthenticatorEd25519">>,
   <<"SingleKeyAccount", "AnyPublicKey", "AnySignature", "AccountAuthenticatorSingleKey">>,
   <<"KeylessAccount", "KeylessPublicKey", "KeylessSignature", "AccountAuthenticatorSingleKey">>,
   <<"MultiKeyAccount", "MultiKey", "MultiKeySignature", "AccountAuthenticatorMultiKey">>,
   <<"MultiAuthKeyAccount", "MultiAuthKeyPublicKey", "MultiAuthKeySignature",
     "AccountAuthenticatorMultiAuthKey">>}

IsAccount(p) ==
  /\ <<p.class, p.publicKey.class, p.signature, p.authenticator>> \in Classes
  /\ p.bits \subseteq DOMAIN p.publicKey.keys
  /\ Len(p.publicKey.keys) \in Nat /\ DOMAIN p.publicKey.keys = 1..Len(p.publicKey.keys)
  /\ p.class \in {"Ed25519Account", "SingleKeyAccount", "KeylessAccount"} => p.bits = {1}
  /\ p.class = "MultiAuthKeyAccount" => p.bits = DOMAIN p.publicKey.keys
  /\ p.class = "MultiKeyAccount" =>
       \A i, j \in p.bits : p.publicKey.keys[i] = p.publicKey.keys[j] => i = j

-----------------------------------------------------------------------------

Signature(key, message) == [key |-> key, over |-> message]

sign(account, message) ==
  [class |-> account.signature,
   at |-> [i \in account.bits |-> Signature(account.publicKey.keys[i], message)]]

Authenticator(class, publicKey, signatures) ==
  [class |-> class, publicKey |-> publicKey, signatures |-> signatures]

signWithAuthenticator(account, message) ==
  Authenticator(account.authenticator, Normalized(account.publicKey), sign(account, message).at)

-----------------------------------------------------------------------------
(* verifySignature: "yes", "no" or "throws".                               *)

Verdict(condition) == IF condition THEN "yes" ELSE "no"

(* The keys of a multi-key are AnyPublicKeys, and the one of a keyless     *)
(* account cannot verify.                                                  *)
verifyAny(key, message, signature) ==
  IF key.curve = "Keyless" THEN "throws" ELSE Verdict(signature = Signature(key, message))

(* The verdict of a loop that returns false at the first "no", and throws  *)
(* at the first key that cannot verify.                                    *)
AllOf(verdicts) ==
  LET bad == {i \in DOMAIN verdicts : verdicts[i] # "yes"}
  IN  IF bad = {} THEN "yes" ELSE verdicts[CHOOSE i \in bad : \A j \in bad : i <= j]

Rank(positions, i) == Cardinality({j \in positions : j <= i})

(* Mutant: the i-th key of the multi-key.                                  *)
verifyMultiKey_Dense(account, message, signature) ==
  LET given == DOMAIN signature.at
  IN  AllOf([i \in given |-> verifyAny(account.publicKey.keys[Rank(given, i)], message, signature.at[i])])

(* MultiKeyAccount takes the i-th signature to be that of its own i-th     *)
(* signer, whatever the bitmap of the signature says; one that has more    *)
(* signatures than the account has signers reads past the end.             *)
verifyMultiKey(account, message, signature) ==
  LET own   == account.bits
      given == DOMAIN signature.at
      keyOf(i) == account.publicKey.keys[CHOOSE k \in own : Rank(own, k) = Rank(given, i)]
  IN  AllOf([i \in given |->
        IF Rank(given, i) > Cardinality(own) THEN "throws"
        ELSE verifyAny(keyOf(i), message, signature.at[i])])

verifyMultiAuthKey(account, message, signature) ==
  IF DOMAIN signature.at # DOMAIN account.publicKey.keys THEN "no"
  ELSE AllOf([i \in DOMAIN signature.at |->
         verifyAny(account.publicKey.keys[i], message, signature.at[i])])

verifyEd25519(account, message, signature) ==
  IF signature.class # "Ed25519Signature" THEN "no"
  ELSE Verdict(signature.at[1] = Signature(account.publicKey.keys[1], message))

(* A keyless account verifies with its ephemeral key pair, until that has  *)
(* expired.                                                                *)
verifyKeyless(account, message, signature, isExpired) ==
  IF isExpired THEN "no"
  ELSE Verdict(signature.at[1] = Signature(account.publicKey.keys[1], message))

verifySingleKey(account, message, signature) ==
  IF signature.class # "AnySignature" THEN "no"
  ELSE verifyAny(account.publicKey.keys[1], message, signature.at[1])

(* isExpired: of the ephemeral key pair, at the time of the question.      *)
verifySignature(account, message, signature, isExpired) ==
  CASE account.class = "Ed25519Account" -> verifyEd25519(account, message, signature)
    [] account.class = "SingleKeyAccount" -> verifySingleKey(account, message, signature)
    [] account.class = "KeylessAccount" -> verifyKeyless(account, message, signature, isExpired)
    [] account.class = "MultiKeyAccount" -> verifyMultiKey(account, message, signature)
    [] account.class = "MultiAuthKeyAccount" -> verifyMultiAuthKey(account, message, signature)
=============================================================================
