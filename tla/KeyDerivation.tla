--------------------------- MODULE KeyDerivation ---------------------------
(***************************************************************************)
(* What keys, commitments and nonces are made from, and what is made twice *)
(* from different things:                                                  *)
(*   - the identity commitment of a KeylessPublicKey (core/crypto/         *)
(*     keyless.ts) and the nonce of an EphemeralKeyPair, hashes of numbers *)
(*     that poseidon.ts packs bytes into;                                  *)
(*   - private keys derived from a mnemonic along a path (hdKey.ts,        *)
(*     ed25519.ts, secp256k1.ts);                                          *)
(*   - the ed25519 signatures that are accepted.                           *)
(* An application makes them one after another; between the request for a  *)
(* JWT and its arrival the page is left and loaded again, and the pair     *)
(* whose nonce the JWT carries is read back from storage.                  *)
(*                                                                         *)
(* The hash functions and curves are libraries: a hash is the record of    *)
(* what went into it.  Poseidon computes modulo FieldOrder.                *)
(***************************************************************************)
EXTENDS Digits, FiniteSets, SequencesExt

CONSTANTS
    ByteValues,                \* 256
    BYTES_PACKED_PER_SCALAR,   \* 31
    MAX_NUM_INPUT_SCALARS,     \* 16
    FieldOrder,                \* of the scalar field of BN254
    MAX_AUD_VAL_BYTES, MAX_UID_VAL_BYTES, MAX_UID_KEY_BYTES, MAX_COMMITED_EPK_BYTES,
    ID_COMMITMENT_LENGTH,      \* 32
    PEPPER_LENGTH,             \* 31
    BLINDER_LENGTH,            \* 31
    TWO_WEEKS_IN_SECONDS, Hour,
    GroupOrder, S_LENGTH,      \* the order of the ed25519 group, and its bytes (32)
    HARDENED_OFFSET,           \* 2^31
    Issuers,
    MaxPepper,                 \* bound: the longest pepper
    KEY_LENGTH, ExpiryDates,      \* of ephemeral key pairs
    Words, Indices,            \* of mnemonics and of derivation paths
    Absent,
    MaxMade,                   \* bound: how many things an application makes
    MaxSeconds                 \* bound: time passes up to here

Bytes == 0..(ByteValues - 1)
ByteStrings(longest) == UNION {[1..n -> Bytes] : n \in 0..longest}

ASSUME BytesAssumption ==
    /\ ByteValues \in Nat \ {0, 1} /\ BYTES_PACKED_PER_SCALAR \in Nat \ {0} /\ FieldOrder \in Nat
    /\ Power(ByteValues, BYTES_PACKED_PER_SCALAR) <= FieldOrder
    /\ FieldOrder <= Power(ByteValues, ID_COMMITMENT_LENGTH) /\ ID_COMMITMENT_LENGTH \in Nat
    /\ PEPPER_LENGTH \in 0..BYTES_PACKED_PER_SCALAR
    /\ BLINDER_LENGTH \in 0..BYTES_PACKED_PER_SCALAR
    /\ MaxPepper \in Nat
ASSUME LimitsAssumption ==
    \A limit \in {MAX_AUD_VAL_BYTES, MAX_UID_VAL_BYTES, MAX_UID_KEY_BYTES, MAX_COMMITED_EPK_BYTES} :
       /\ limit \in Nat /\ limit < FieldOrder
       /\ limit <= (MAX_NUM_INPUT_SCALARS - 1) * BYTES_PACKED_PER_SCALAR
ASSUME PairsAssumption ==
    /\ TWO_WEEKS_IN_SECONDS \in Nat /\ Hour \in Nat \ {0} /\ MaxSeconds \in Nat
    /\ TWO_WEEKS_IN_SECONDS >= Hour
    /\ ExpiryDates \subseteq Nat \ {0} /\ \A expiry \in ExpiryDates : expiry < FieldOrder
    /\ MaxSeconds + TWO_WEEKS_IN_SECONDS < FieldOrder
    /\ KEY_LENGTH \in Bytes /\ KEY_LENGTH + 2 <= MAX_COMMITED_EPK_BYTES
    /\ Absent \notin Nat
ASSUME CurveAssumption ==
    S_LENGTH \in Nat /\ GroupOrder \in 1..(Power(ByteValues, S_LENGTH) - 1)
ASSUME PathsAssumption ==
    HARDENED_OFFSET \in Nat /\ HARDENED_OFFSET > 637 /\ Indices \subseteq Nat /\ MaxMade \in Nat

VARIABLES
    publicKeys,      \* history: the keyless public keys, with the identities
    pair,            \* the ephemeral key pair in memory
    storage,         \* the bytes of the pair that was serialized last
    jwtNonce,        \* the nonce claim of the JWT
    pairs,           \* history: every pair that was constructed
    seconds,         \* Date.now() / 1000
    derivedKeys,     \* history: the derived private keys, with their paths
    accepted         \* history: the signatures that were accepted

derivationVars == <<publicKeys, pair, storage, jwtNonce, pairs, seconds, derivedKeys, accepted>>
-----------------------------------------------------------------------------
(* core/crypto/poseidon.ts.  The checks of the length of the bytes that    *)
(* throw are the guard IsAtMost of the callers; no limit of theirs exceeds *)
(* what packBytes and poseidonHash take.                                   *)

IsAtMost(bytes, maxSizeBytes) == Len(bytes) <= maxSizeBytes

bytesToBigIntLE(bytes) == ValueOf(Reverse(bytes), ByteValues)

padUint8ArrayWithZeros(bytes, paddedSize) ==
    [i \in 1..paddedSize |-> IF i <= Len(bytes) THEN bytes[i] ELSE 0]

(* The last chunk may be shorter.                                          *)
chunkUint8Array(array, chunkSize) ==
    [k \in 1..((Len(array) + chunkSize - 1) \div chunkSize) |->
       SubSeq(array, (k - 1) * chunkSize + 1,
              IF k * chunkSize <= Len(array) THEN k * chunkSize ELSE Len(array))]

packBytes(bytes) ==
    LET chunks == chunkUint8Array(bytes, BYTES_PACKED_PER_SCALAR)
    IN  [k \in DOMAIN chunks |-> bytesToBigIntLE(chunks[k])]

(* Mutant: the length is left out, as by padAndPackBytesNoLen.             *)
padAndPackBytesWithLen_NoLen(bytes, maxSizeBytes) ==
    packBytes(padUint8ArrayWithZeros(bytes, maxSizeBytes)) \o <<0>>

padAndPackBytesWithLen(bytes, maxSizeBytes) ==
    packBytes(padUint8ArrayWithZeros(bytes, maxSizeBytes)) \o <<Len(bytes)>>

(* Numbers that go into a hash, and hashes.                                *)
Scalar(n) == n % FieldOrder
Scalars(numbers) == [i \in DOMAIN numbers |-> Scalar(numbers[i])]
poseidonHash(inputs) == [poseidon |-> inputs]

hashStrToField(bytes, maxSizeBytes) ==
    poseidonHash(Scalars(padAndPackBytesWithLen(bytes, maxSizeBytes)))

(* A hash is below FieldOrder: its ID_COMMITMENT_LENGTH bytes tell it.     *)
bigIntToBytesLE(hash, length) == [bytesOf |-> hash, length |-> length]
-----------------------------------------------------------------------------
(* core/crypto/keyless.ts.                                                 *)

Identity ==
    [iss : Issuers, uidKey : ByteStrings(MAX_UID_KEY_BYTES + 1), uidVal : ByteStrings(MAX_UID_VAL_BYTES + 1),
     aud : ByteStrings(MAX_AUD_VAL_BYTES + 1), pepper : ByteStrings(MaxPepper)]

(* Every field has its own limit.                                          *)
IsShort(identity) ==
    /\ IsAtMost(identity.aud, MAX_AUD_VAL_BYTES)
    /\ IsAtMost(identity.uidVal, MAX_UID_VAL_BYTES)
    /\ IsAtMost(identity.uidKey, MAX_UID_KEY_BYTES)

computeIdCommitment(identity) ==
    bigIntToBytesLE(
        poseidonHash(<<Scalar(bytesToBigIntLE(identity.pepper)),
                       hashStrToField(identity.aud, MAX_AUD_VAL_BYTES),
                       hashStrToField(identity.uidVal, MAX_UID_VAL_BYTES),
                       hashStrToField(identity.uidKey, MAX_UID_KEY_BYTES)>>),
        ID_COMMITMENT_LENGTH)

NewKeylessPublicKey(identity) ==
    [iss |-> identity.iss, idCommitment |-> computeIdCommitment(identity)]
-----------------------------------------------------------------------------
(* account/EphemeralKeyPair.ts.  The private key has one public key, which *)
(* stands for both.  A pair that is given no expiry, or 0, expires two     *)
(* weeks from now, at a whole hour.                                        *)

PublicKeys == [1..KEY_LENGTH -> Bytes]
Blinders == [1..BLINDER_LENGTH -> Bytes]

(* Of an EphemeralPublicKey: the variant, the length and the key.          *)
publicKeyBytes(publicKey) == <<0, KEY_LENGTH>> \o publicKey

floorToWholeHour(timestamp) == timestamp - (timestamp % Hour)
InTwoWeeks(now) == floorToWholeHour(now + TWO_WEEKS_IN_SECONDS)

(* Mutant: the nonce says nothing about the expiry.                        *)
NewEphemeralKeyPair_NoExpiry(publicKey, expiryDateSecs, blinder, now) ==
    LET expires == IF expiryDateSecs # Absent THEN expiryDateSecs ELSE InTwoWeeks(now)
        fields == padAndPackBytesWithLen(publicKeyBytes(publicKey), MAX_COMMITED_EPK_BYTES)
    IN  [publicKey |-> publicKey, expiryDateSecs |-> expires, blinder |-> blinder,
         nonce |-> poseidonHash(Scalars(fields \o <<bytesToBigIntLE(blinder)>>))]

NewEphemeralKeyPair(publicKey, expiryDateSecs, blinder, now) ==
    LET expires == IF expiryDateSecs # Absent THEN expiryDateSecs ELSE InTwoWeeks(now)
        fields == padAndPackBytesWithLen(publicKeyBytes(publicKey), MAX_COMMITED_EPK_BYTES)
    IN  [publicKey |-> publicKey, expiryDateSecs |-> expires, blinder |-> blinder,
         nonce |-> poseidonHash(Scalars(fields \o <<expires, bytesToBigIntLE(blinder)>>))]

(* What serialize writes of a pair.                                        *)
Stored(p) == [publicKey |-> p.publicKey, expiryDateSecs |-> p.expiryDateSecs, blinder |-> p.blinder]
-----------------------------------------------------------------------------
(* core/crypto/hdKey.ts.  A component of a path is the number its digits   *)
(* are read as, below 2^53, and whether an apostrophe follows.             *)

Component(index, apostrophe) == [index |-> index, apostrophe |-> apostrophe]
Bip44(path) ==
    /\ Len(path) = 5
    /\ path[1] = Component(44, TRUE) /\ path[2] = Component(637, TRUE) /\ path[3].apostrophe

isValidHardenedPath(path) == Bip44(path) /\ path[4].apostrophe
isValidBIP44Path(path) == Bip44(path) /\ ~path[4].apostrophe /\ ~path[5].apostrophe

(* Whether the last two are hardened is given.                             *)
Path(a, c, i, fourth, fifth) ==
    <<Component(44, TRUE), Component(637, TRUE), Component(a, TRUE), Component(c, fourth), Component(i, fifth)>>

(* A word of a mnemonic and whether it is written in capitals; the blanks  *)
(* around the words are dropped.                                           *)
Mnemonics == {<<[word |-> w, capitals |-> c]>> : w \in Words, c \in BOOLEAN}
mnemonicToSeed(mnemonic) == [i \in DOMAIN mnemonic |-> mnemonic[i].word]

(* CKDPriv: setUint32 keeps the lowest 32 bits of the index.               *)
Uint32(n) == n % (2 * HARDENED_OFFSET)

ChildIndex(segment) == Uint32(segment + HARDENED_OFFSET)

(* A key is the chain of the indices it was derived with, from the seed.   *)
Ed25519FromDerivationPath(path, seed) ==
    [curve |-> "ed25519", seed |-> seed, indices |-> [i \in DOMAIN path |-> ChildIndex(path[i].index)]]

(* HDKey.derive of @scure/bip32, which refuses larger indices.             *)
Derivable(path) == \A i \in DOMAIN path : path[i].index < HARDENED_OFFSET
Secp256k1FromDerivationPath(path, seed) ==
    [curve |-> "secp256k1", seed |-> seed,
     indices |-> [i \in DOMAIN path |->
                    path[i].index + (IF path[i].apostrophe THEN HARDENED_OFFSET ELSE 0)]]

Schemes == {"Ed25519", "Secp256k1Ecdsa"}
KeyOf(scheme, path, seed) ==
    IF scheme = "Ed25519" THEN Ed25519FromDerivationPath(path, seed)
    ELSE Secp256k1FromDerivationPath(path, seed)
-----------------------------------------------------------------------------
(* core/crypto/ed25519.ts: the second half s of a signature against L, the *)
(* bytes of the order, the lowest first.                                   *)

L == Reverse(DigitsOf(GroupOrder, ByteValues, S_LENGTH))

(* Mutant: the bytes are compared from the first, which is the lowest.     *)
isCanonicalSignature_FromFirst(s) ==
    \E i \in DOMAIN s : s[i] < L[i] /\ \A j \in 1..(i - 1) : s[j] = L[j]

isCanonicalSignature(s) ==
    \E i \in DOMAIN s : s[i] < L[i] /\ \A j \in (i + 1)..Len(s) : s[j] = L[j]

(* The equation that ed25519.verify checks is one in the group: s counts   *)
(* modulo its order.                                                       *)
SolvesFor(s, response) == bytesToBigIntLE(s) % GroupOrder = response
Verifies(s, response) == isCanonicalSignature(s) /\ SolvesFor(s, response)
-----------------------------------------------------------------------------
DerivationInit ==
    /\ publicKeys = {} /\ derivedKeys = {} /\ accepted = {}
    /\ pair = Absent /\ storage = Absent /\ jwtNonce = Absent /\ pairs = {}
    /\ seconds = 0

Made == Cardinality(publicKeys) + Cardinality(pairs) + Cardinality(derivedKeys) + Cardinality(accepted)
MayMake == Made < MaxMade

pairVars == <<pair, storage, jwtNonce, pairs>>

CreateKeylessPublicKey(identity) ==
    /\ IsShort(identity)
    /\ publicKeys' = publicKeys \cup {[identity |-> identity, key |-> NewKeylessPublicKey(identity)]}
    /\ UNCHANGED <<pairVars, seconds, derivedKeys, accepted>>

(* A pair that is generated, and whatever came of the one before it.       *)
GeneratePair(publicKey, expiryDateSecs, blinder) ==
    /\ pair' = NewEphemeralKeyPair(publicKey, expiryDateSecs, blinder, seconds)
    /\ pairs' = pairs \cup {pair'}
    /\ storage' = Absent /\ jwtNonce' = Absent
    /\ UNCHANGED <<publicKeys, seconds, derivedKeys, accepted>>

SerializePair ==
    /\ pair # Absent /\ storage = Absent
    /\ storage' = Stored(pair)
    /\ UNCHANGED <<publicKeys, pair, jwtNonce, pairs, seconds, derivedKeys, accepted>>

(* The user leaves the page for the identity provider.                     *)
RequestJwt ==
    /\ pair # Absent /\ storage # Absent
    /\ jwtNonce' = pair.nonce
    /\ pair' = Absent
    /\ UNCHANGED <<publicKeys, storage, pairs, seconds, derivedKeys, accepted>>

(* EphemeralKeyPair.deserialize constructs the pair anew.                  *)
DeserializePair ==
    /\ pair = Absent /\ storage # Absent
    /\ pair' = NewEphemeralKeyPair(storage.publicKey, storage.expiryDateSecs, storage.blinder, seconds)
    /\ pairs' = pairs \cup {pair'}
    /\ UNCHANGED <<publicKeys, storage, jwtNonce, seconds, derivedKeys, accepted>>

(* The class of the private key refuses the paths of the other one.        *)
FromDerivationPath(scheme, path, mnemonic) ==
    /\ \/ scheme = "Ed25519" /\ isValidHardenedPath(path)
       \/ scheme = "Secp256k1Ecdsa" /\ isValidBIP44Path(path) /\ Derivable(path)
    /\ derivedKeys' = derivedKeys \cup
         {[path |-> path, mnemonic |-> mnemonic, key |-> KeyOf(scheme, path, mnemonicToSeed(mnemonic))]}
    /\ UNCHANGED <<publicKeys, pairVars, seconds, accepted>>

(* A message, the first half of its signature and a public key have one    *)
(* response.                                                               *)
AcceptSignature(s, response) ==
    /\ Verifies(s, response)
    /\ accepted' = accepted \cup {[s |-> s, response |-> response]}
    /\ UNCHANGED <<publicKeys, pairVars, seconds, derivedKeys>>

SecondsPass ==
    /\ pairs # {} /\ seconds < MaxSeconds
    /\ seconds' = seconds + 1
    /\ UNCHANGED <<publicKeys, pairVars, derivedKeys, accepted>>

Make ==
    \/ \E identity \in Identity : CreateKeylessPublicKey(identity)
    \/ \E k \in PublicKeys, expiry \in ExpiryDates \cup {Absent}, b \in Blinders : GeneratePair(k, expiry, b)
    \/ \E scheme \in Schemes, a, c, i \in Indices, fourth, fifth \in BOOLEAN, mnemonic \in Mnemonics :
          FromDerivationPath(scheme, Path(a, c, i, fourth, fifth), mnemonic)
    \/ \E s \in [1..S_LENGTH -> Bytes], response \in 0..(GroupOrder - 1) : AcceptSignature(s, response)

DerivationNext ==
    \/ MayMake /\ Make
    \/ SerializePair \/ RequestJwt \/ DeserializePair
    \/ SecondsPass

DerivationSpec == DerivationInit /\ [][DerivationNext]_derivationVars
-----------------------------------------------------------------------------
(* Who logs in with another claim, at another provider, or has another     *)
(* pepper, has another public key and so another account: whatever the     *)
(* padding to a fixed length, the chunks of 31 bytes and the field make of *)
(* them (computeIdCommitment).  Peppers of the length that KeylessAccount  *)
(* requires are compared; others may stand for the same number.            *)
IdentitiesHaveTheirOwnKeys ==
    \A a, b \in publicKeys :
       LET x == a.identity
           y == b.identity
       IN  a.key = b.key =>
             /\ x.iss = y.iss /\ x.aud = y.aud /\ x.uidKey = y.uidKey /\ x.uidVal = y.uidVal
             /\ Len(x.pepper) = PEPPER_LENGTH /\ Len(y.pepper) = PEPPER_LENGTH => x.pepper = y.pepper

(* The nonce in a JWT commits to one key, one expiry and one blinder: no   *)
(* other pair has it (constructor of EphemeralKeyPair).                    *)
NoncesBindTheirPairs == \A p, q \in pairs : p.nonce = q.nonce => p = q

(* The pair that is read back when the JWT arrives has the nonce the JWT   *)
(* was asked for, however long that took: the constructor computes it      *)
(* again from what was serialized.                                         *)
JwtFitsThePair == pair # Absent /\ jwtNonce # Absent => pair.nonce = jwtNonce

(* Another curve, other words or another number in the path give another   *)
(* private key, as long as the numbers have 32 bits.                       *)
In32Bits(path) == \A i \in DOMAIN path : path[i].index < 2 * HARDENED_OFFSET
Numbers(path) == [i \in DOMAIN path |-> path[i].index]
PathsHaveTheirOwnKeys ==
    \A a, b \in derivedKeys :
       a.key = b.key /\ In32Bits(a.path) /\ In32Bits(b.path) =>
          /\ Numbers(a.path) = Numbers(b.path)
          /\ mnemonicToSeed(a.mnemonic) = mnemonicToSeed(b.mnemonic)

(* Of the values of s that solve the equation of a signature one is        *)
(* accepted: nobody can turn a signature into another one of the same      *)
(* message ("Also verify malleability", ed25519.ts).                       *)
SignaturesAreUnique ==
    \A a, b \in accepted : a.response = b.response => a.s = b.s

(* Another origin, another key.                                            *)
KeysHaveOneOrigin == IdentitiesHaveTheirOwnKeys /\ PathsHaveTheirOwnKeys

(* A login ends with the pair it began with.                               *)
LoginsKeepTheirPairs == NoncesBindTheirPairs /\ JwtFitsThePair
=============================================================================
