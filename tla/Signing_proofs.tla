--------------------------- MODULE Signing_proofs ---------------------------
(***************************************************************************)
(* Proofs about Signing and SignAndSubmit, for any accounts, programs,     *)
(* transactions, keyless signers, calls and times, and about               *)
(* KeyDerivation, for any bases, lengths, orders of the field and the      *)
(* group, and paths.                                                       *)
(***************************************************************************)
EXTENDS Signing, SignAndSubmit, KeyDerivation, Induction, TLAPS

-----------------------------------------------------------------------------
(***************************************************************************)
(* Signing.  The accounts first.                                           *)
(***************************************************************************)

\* What the constructors make are accounts in the sense of the assumption, a
\* MultiKeyAccount if its signers' keys are among its keys.
LEMMA ConstructorsMakeAccounts ==
  ASSUME NEW key, NEW address, NEW keys, NEW n, NEW S, keys \in Seq(S), Len(keys) > 0,
         NEW given \in Seq({keys[i] : i \in DOMAIN keys})
  PROVE  /\ IsAccount(Ed25519Account(key, address))
         /\ IsAccount(SingleKeyAccount(key, address))
         /\ IsAccount(KeylessAccount(key, address))
         /\ IsAccount(MultiAuthKeyAccount(address, keys))
         /\ IsAccount(MultiKeyAccount(keys, n, given))
<1> USE DEF Account, PublicKey, AnyPublicKey, Classes
<1>1. IsAccount(Ed25519Account(key, address))
  BY DEF IsAccount, Ed25519Account
<1>2. IsAccount(SingleKeyAccount(key, address))
  BY DEF IsAccount, SingleKeyAccount
<1>3. IsAccount(KeylessAccount(key, address))
  BY DEF IsAccount, KeylessAccount
<1>4. IsAccount(MultiAuthKeyAccount(address, keys))
  BY DEF IsAccount, MultiAuthKeyAccount
<1>5. IsAccount(MultiKeyAccount(keys, n, given))
  <2>1. ASSUME NEW i \in DOMAIN given
        PROVE  getIndex(keys, given[i]) \in DOMAIN keys /\ keys[getIndex(keys, given[i])] = given[i]
    <3> DEFINE At == {j \in 1 .. Len(keys) : keys[j] = given[i]}
    <3>1. At # {} /\ At \in SUBSET Nat
      OBVIOUS
    <3>2. PICK j \in At : \A k \in At : j <= k
      <4> HIDE DEF At
      <4> QED BY <3>1, LeastNumber
    <3>3. \A k \in 1 .. (j - 1) : keys[k] # given[i]
      <4>1. \A k \in 1 .. (j - 1) : k \in 1 .. Len(keys) /\ ~(j <= k)
        BY <3>1
      <4> QED BY <3>2, <4>1
    <3>4. j \in DOMAIN keys /\ keys[j] = given[i]
      OBVIOUS
    <3> HIDE DEF At
    <3> QED BY <3>3, <3>4 DEF getIndex
  <2>2. {getIndex(keys, given[i]) : i \in DOMAIN given} \subseteq DOMAIN keys
    BY <2>1
  <2>3. \A i, j \in DOMAIN given :
           keys[getIndex(keys, given[i])] = keys[getIndex(keys, given[j])]
             => getIndex(keys, given[i]) = getIndex(keys, given[j])
    BY <2>1
  <2>4. LET bits == {getIndex(keys, given[i]) : i \in DOMAIN given}
        IN  \A i, j \in bits : keys[i] = keys[j] => i = j
    BY <2>3
  <2> QED
    BY <2>2, <2>4 DEF IsAccount, MultiKeyAccount
<1> QED
  BY <1>1, <1>2, <1>3, <1>4, <1>5

\* What an account signs is a signature by each of its keys.
LEMMA SignedFacts ==
  ASSUME NEW p, IsAccount(p), NEW message
  PROVE  LET a == signWithAuthenticator(p, message)
         IN  /\ a.class = p.authenticator
             /\ a.publicKey = Normalized(p.publicKey)
             /\ DOMAIN a.signatures = p.bits
             /\ \A i \in p.bits : /\ a.signatures[i] = Signature(a.publicKey.keys[i], message)
                                  /\ a.signatures[i] = Signature(p.publicKey.keys[i], message)
<1>1. \A i \in p.bits : Normalized(p.publicKey).keys[i] = p.publicKey.keys[i]
  <2>1. CASE p.publicKey.class = "KeylessPublicKey"
    <3>1. p.bits = {1}
      BY <2>1 DEF IsAccount, Classes
    <3> QED
      BY <2>1, <3>1 DEF Normalized, AnyPublicKey, PublicKey
  <2>2. CASE p.publicKey.class # "KeylessPublicKey"
    BY <2>2 DEF Normalized
  <2> QED
    BY <2>1, <2>2
<1> QED
  BY <1>1 DEF signWithAuthenticator, Authenticator, sign
-----------------------------------------------------------------------------
\* What is undefined in the code is no object and no array: every record and every
\* sequence is a function.  (TLC's model value is unlike them all.)
NothingIsNoFunction == Nothing # [x \in DOMAIN Nothing |-> Nothing[x]]

LEMMA ObjectsAreThere ==
  ASSUME NothingIsNoFunction, NEW f, f = [x \in DOMAIN f |-> f[x]]
  PROVE  f # Nothing
  BY DEF NothingIsNoFunction

\* The transaction with a fee payer's address.
Paid(t, address) == [t EXCEPT !.feePayerAddress = address]
Sponsored(t) == t.feePayerAddress # Nothing

\* What a program may have: the transaction as it was generated, or with the
\* address of somebody who signed as its fee payer.
IsVersion(t) ==
    \/ t = generated
    \/ Sponsored(generated) /\ \E s \in sponsors : t = Paid(generated, s)

\* An authenticator was made for a version, that of a fee payer for its own.
IsMade(x) ==
    /\ x.as \in {"signer", "feePayer"}
    /\ x.as = "signer" =>
          \E p \in People : \E t : IsVersion(t) /\ x.authenticator = signWithAuthenticator(p, SigningMessage(t))
    /\ x.as = "feePayer" =>
          /\ Sponsored(generated)
          /\ \E p \in People, s \in sponsors :
                x.authenticator = signWithAuthenticator(p, SigningMessage(Paid(generated, s)))

IsDraft(t) ==
    \E d \in Drafts : t = buildRawTransaction(d.sender, d.secondary, d.withFeePayer)

\* What the programs, the authenticators and the fee payers have to do with the
\* transaction that was generated.
Provenance ==
    /\ generated = Nothing =>
          authenticators = {} /\ sponsors = {} /\ submission = NoOutcome
          /\ \A c \in Clients : copy[c] = Nothing
    /\ generated # Nothing => IsDraft(generated)
    /\ sponsors \subseteq Addresses
    /\ copy = [c \in Clients |-> copy[c]]
    /\ \A c \in Clients : copy[c] # Nothing => IsVersion(copy[c])
    /\ \A x \in authenticators : IsMade(x)

LEMMA ProvenanceInitially == SigningInit => Provenance
  BY DEF SigningInit, Provenance, NoOutcome

LEMMA DraftFacts ==
  ASSUME NothingIsNoFunction, NEW t, IsDraft(t)
  PROVE  /\ t # Nothing
         /\ t.feePayerAddress \in {ZERO, Nothing}
         /\ \E secondary, sender : t = [sender |-> sender, secondarySignerAddresses |-> secondary,
                                        feePayerAddress |-> t.feePayerAddress]
<1>1. PICK d \in Drafts : t = buildRawTransaction(d.sender, d.secondary, d.withFeePayer)
  BY DEF IsDraft
<1>2. t # Nothing
  <2>1. t = [x \in DOMAIN t |-> t[x]]
    BY <1>1 DEF buildRawTransaction
  <2> QED
    BY <2>1, ObjectsAreThere
<1>3. t.feePayerAddress \in {ZERO, Nothing}
  BY <1>1 DEF buildRawTransaction
<1>4. t = [sender |-> d.sender, secondarySignerAddresses |-> d.secondary,
           feePayerAddress |-> t.feePayerAddress]
  BY <1>1 DEF buildRawTransaction
<1> QED
  BY <1>2, <1>3, <1>4

\* A program that works has a version of a transaction that was generated.
LEMMA WorkingFacts ==
  ASSUME Provenance, NEW c \in Clients, Working(c)
  PROVE  generated # Nothing /\ IsDraft(generated) /\ IsVersion(copy[c])
BY DEF Working, Provenance

LEMMA generateTransaction_Keeps ==
  ASSUME NothingIsNoFunction, Provenance, NEW g, generateTransaction(g)
  PROVE  Provenance'
<1>1. /\ generated = Nothing /\ IsDraft(generated')
      /\ authenticators' = {} /\ sponsors' = {}
  BY DEF generateTransaction, Provenance, IsDraft
<1>2. generated' # Nothing
  BY <1>1, DraftFacts
<1>3. copy' = [copy EXCEPT ![g] = generated']
  BY DEF generateTransaction
<1>4. copy' = [c \in Clients |-> copy'[c]] /\ \A c \in Clients : copy'[c] \in {Nothing, generated'}
  BY <1>1, <1>3 DEF Provenance
<1>5. \A c \in Clients : copy'[c] # Nothing => IsVersion(copy[c])'
  BY <1>4 DEF IsVersion
<1>6. IsDraft(generated)'
  BY <1>1 DEF IsDraft
<1> QED
  BY <1>1, <1>2, <1>4, <1>5, <1>6 DEF Provenance

\* What keeps the transaction, the sponsors and the authenticators keeps who made them.
LEMMA Pass_Keeps ==
  ASSUME Provenance, NEW c \in Clients, NEW d \in Clients, Pass(c, d)
  PROVE  Provenance'
<1>1. generated # Nothing /\ IsDraft(generated) /\ IsVersion(copy[c])
  BY WorkingFacts DEF Pass
<1>2. generated' = generated /\ authenticators' = authenticators /\ sponsors' = sponsors
      /\ copy' = [copy EXCEPT ![d] = copy[c]]
  BY DEF Pass
<1>3. \A t : IsVersion(t)' <=> IsVersion(t)
  BY <1>2 DEF IsVersion
<1> QED
  BY <1>1, <1>2, <1>3 DEF Provenance, IsVersion, IsDraft, IsMade

LEMMA transaction_Keeps ==
  ASSUME Provenance, NEW c \in Clients, NEW p \in People, transaction(c, p)
  PROVE  Provenance'
<1>1. generated # Nothing /\ IsDraft(generated) /\ IsVersion(copy[c])
  BY WorkingFacts DEF transaction
<1> DEFINE new == [as |-> "signer", authenticator |-> signWithAuthenticator(p, SigningMessage(copy[c]))]
<1>2. generated' = generated /\ copy' = copy /\ sponsors' = sponsors
      /\ authenticators' = authenticators \cup {new}
  BY DEF transaction, Collect
<1>3. \A t : IsVersion(t)' <=> IsVersion(t)
  BY <1>2 DEF IsVersion
<1>4. IsMade(new)
  BY <1>1 DEF IsMade
<1> HIDE DEF new
<1>5. \A x : IsMade(x) => IsMade(x)'
  BY <1>2, <1>3 DEF IsMade
<1>6. \A x \in authenticators' : IsMade(x)'
  BY <1>2, <1>4, <1>5 DEF Provenance
<1>7. IsDraft(generated)'
  BY <1>1, <1>2 DEF IsDraft
<1> QED
  BY <1>1, <1>2, <1>3, <1>6, <1>7 DEF Provenance

LEMMA transactionAsFeePayer_Keeps ==
  ASSUME NothingIsNoFunction, Provenance, NEW c \in Clients, NEW p \in People,
         transactionAsFeePayer(c, p)
  PROVE  Provenance'
<1>1. generated # Nothing /\ IsDraft(generated) /\ IsVersion(copy[c])
  BY WorkingFacts DEF transactionAsFeePayer
<1> DEFINE s == p.accountAddress
<1>0. PICK paid : paid = Paid(copy[c], s)
  OBVIOUS
<1> DEFINE new == [as |-> "feePayer", authenticator |-> signWithAuthenticator(p, SigningMessage(paid))]
<1>2. /\ generated' = generated /\ sponsors' = sponsors \cup {s}
      /\ copy' = [copy EXCEPT ![c] = paid]
      /\ Sponsored(copy[c]) /\ c \in DOMAIN copy
  <2>1. copy' = [copy EXCEPT ![c].feePayerAddress = s]
    BY DEF transactionAsFeePayer
  <2>2. c \in DOMAIN copy
    BY DEF Provenance
  <2> QED
    BY <1>0, <2>1, <2>2 DEF transactionAsFeePayer, Paid, Sponsored
<1>3. Sponsored(generated)
  BY <1>1, <1>2 DEF IsVersion, Sponsored
<1>4. paid = Paid(generated, s)
  <2>1. \E a, b : generated = [sender |-> a, secondarySignerAddresses |-> b,
                               feePayerAddress |-> generated.feePayerAddress]
    BY <1>1, DraftFacts
  <2>2. \A t : Paid(Paid(generated, t), s) = Paid(generated, s)
    BY <2>1 DEF Paid
  <2> QED
    BY <1>0, <1>1, <2>2 DEF IsVersion
<1>5. authenticators' = authenticators \cup {new}
  <2>1. copy'[c] = paid
    BY <1>2
  <2> QED
    BY <2>1 DEF transactionAsFeePayer, Collect
<1>6. \A t : IsVersion(t) => IsVersion(t)'
  BY <1>2 DEF IsVersion
<1>7. IsVersion(paid)'
  BY <1>2, <1>3, <1>4 DEF IsVersion, Paid
<1>8. IsMade(new)'
  BY <1>2, <1>3, <1>4 DEF IsMade, Paid
<1> HIDE DEF new
<1>9. \A x : IsMade(x) => IsMade(x)'
  BY <1>2, <1>6 DEF IsMade, Paid
<1>10. \A x \in authenticators' : IsMade(x)'
  BY <1>5, <1>8, <1>9 DEF Provenance
<1>11. s \in Addresses
  BY DEF Addresses
<1>12. copy' = [d \in Clients |-> copy'[d]] /\ \A d \in Clients : copy'[d] # Nothing => IsVersion(copy[d])'
  <2>1. \A d \in Clients : copy'[d] = paid \/ copy'[d] = copy[d]
    BY <1>2
  <2>2. \A d \in Clients : copy'[d] = paid => IsVersion(copy[d])'
    BY <1>2, <1>3, <1>4 DEF IsVersion, Paid
  <2>3. \A d \in Clients : copy'[d] = copy[d] /\ copy[d] # Nothing => IsVersion(copy[d])'
    BY <1>2 DEF Provenance, IsVersion, Paid
  <2>4. copy' = [d \in Clients |-> copy'[d]]
    BY <1>2 DEF Provenance
  <2> QED
    BY <2>1, <2>2, <2>3, <2>4
<1>13. IsDraft(generated)'
  BY <1>1, <1>2 DEF IsDraft
<1>14. sponsors' \subseteq Addresses'
  BY <1>2, <1>11 DEF Provenance, Addresses
<1>15. generated' # Nothing
  BY <1>1, <1>2
<1> QED
  BY <1>10, <1>12, <1>13, <1>14, <1>15 DEF Provenance

\* The steps that end the session.
Ends(c) ==
    \/ simple(c) \/ multiAgent(c) \/ multiAuthKey(c) \/ simulate(c) \/ mock(c)
    \/ \E p \in People : signAndSubmit(c, p)

LEMMA Ends_Keeps ==
  ASSUME Provenance, NEW c \in Clients, Ends(c)
  PROVE  Provenance'
<1>1. UNCHANGED <<generated, copy, authenticators, sponsors>> /\ Working(c)
  BY DEF Ends, simple, multiAgent, multiAuthKey, simulate, mock, signAndSubmit
<1>2. generated # Nothing
  BY <1>1, WorkingFacts
<1> QED
  BY <1>1, <1>2 DEF Provenance, IsVersion, IsDraft, IsMade, Paid, Addresses

LEMMA ProvenanceStep ==
  NothingIsNoFunction /\ Provenance /\ [SigningNext]_signingVars => Provenance'
<1> SUFFICES ASSUME NothingIsNoFunction, Provenance, [SigningNext]_signingVars
             PROVE  Provenance'
  OBVIOUS
<1>1. CASE UNCHANGED signingVars
  BY <1>1 DEF signingVars, Provenance, IsVersion, IsDraft, IsMade, Paid, Addresses
<1>2. CASE SigningNext
  <2>1. CASE generateTransaction(Generator)
    BY <2>1, generateTransaction_Keeps
  <2>2. ASSUME NEW c \in Clients,
               \/ \E d \in Clients : Pass(c, d)
               \/ \E p \in People : transaction(c, p)
               \/ \E p \in People : transactionAsFeePayer(c, p)
               \/ Ends(c)
        PROVE  Provenance'
    BY <2>2, Pass_Keeps, transaction_Keeps, transactionAsFeePayer_Keeps, Ends_Keeps
  <2> QED
    BY <1>2, <2>1, <2>2 DEF SigningNext, Ends
<1> QED
  BY <1>1, <1>2

-----------------------------------------------------------------------------
\* The signatures of an authenticator, each by its key, are over versions of the
\* transaction; those of a fee payer over one with a fee payer's address.
SignsVersions(a) ==
    \A i \in DOMAIN a.signatures : \E t :
       IsVersion(t) /\ a.signatures[i] = Signature(a.publicKey.keys[i], SigningMessage(t))
SignsPaid(a) ==
    \A i \in DOMAIN a.signatures : \E s \in sponsors :
       a.signatures[i] = Signature(a.publicKey.keys[i], SigningMessage(Paid(generated, s)))

LEMMA MadeSigns ==
  ASSUME NEW x, IsMade(x)
  PROVE  /\ x.as = "signer" => SignsVersions(x.authenticator)
         /\ x.as = "feePayer" => SignsPaid(x.authenticator)
<1>1. ASSUME x.as = "signer" PROVE SignsVersions(x.authenticator)
  <2>1. PICK p \in People :
          \E t : IsVersion(t) /\ x.authenticator = signWithAuthenticator(p, SigningMessage(t))
    BY <1>1 DEF IsMade
  <2>2. IsAccount(p)
    BY SigningAssumption DEF SigningAssumption
  <2> QED
    BY <2>1, <2>2, SignedFacts DEF SignsVersions
<1>2. ASSUME x.as = "feePayer" PROVE SignsPaid(x.authenticator)
  <2>1. PICK p \in People, s \in sponsors :
          x.authenticator = signWithAuthenticator(p, SigningMessage(Paid(generated, s)))
    BY <1>2 DEF IsMade
  <2>2. IsAccount(p)
    BY SigningAssumption DEF SigningAssumption
  <2> QED
    BY <2>1, <2>2, SignedFacts DEF SignsPaid
<1> QED
  BY <1>1, <1>2

\* A version whose fee payer is an account of the chain, or that has none, is the
\* one that everybody signed, or signed before the fee payer was known, if only one
\* account ever signed as its fee payer.
LEMMA VersionMessages ==
  ASSUME NothingIsNoFunction, Provenance, generated # Nothing, \A a, b \in sponsors : a = b,
         NEW t, IsVersion(t), Sponsored(t) => t.feePayerAddress \in Addresses
  PROVE  /\ \A v : IsVersion(v) => SigningMessage(v) \in MessagesFor(t)
         /\ Sponsored(t) => \A s \in sponsors : SigningMessage(Paid(generated, s)) = SigningMessage(t)
<1>1. IsDraft(generated)
  BY DEF Provenance
<1>2. /\ generated.feePayerAddress \in {ZERO, Nothing}
      /\ \E sender, secondary :
            generated = [sender |-> sender, secondarySignerAddresses |-> secondary,
                         feePayerAddress |-> generated.feePayerAddress]
  BY <1>1, DraftFacts
<1>3. ZERO \notin Addresses /\ Nothing \notin Addresses /\ sponsors \subseteq Addresses
  BY SigningAssumption DEF SigningAssumption, Provenance
<1>4. \A s : Paid(generated, s).feePayerAddress = s
  BY <1>2 DEF Paid
<1>5. CASE ~Sponsored(t)
  <2>1. t = generated /\ ~Sponsored(generated)
    BY <1>3, <1>4, <1>5 DEF IsVersion, Sponsored
  <2>2. \A v : IsVersion(v) => v = t
    BY <2>1 DEF IsVersion
  <2> QED
    BY <1>5, <2>2 DEF MessagesFor
<1>6. CASE Sponsored(t)
  <2>1. t # generated
    BY <1>2, <1>3, <1>6 DEF Sponsored
  <2>2. PICK s \in sponsors : t = Paid(generated, s)
    BY <2>1 DEF IsVersion
  <2>3. Sponsored(generated) /\ generated.feePayerAddress = ZERO
    BY <1>2, <2>1 DEF IsVersion, Sponsored
  <2>4. generated = [t EXCEPT !.feePayerAddress = ZERO]
    BY <1>2, <2>2, <2>3 DEF Paid
  <2>5. \A v : IsVersion(v) => v = generated \/ v = t
    BY <2>2 DEF IsVersion
  <2>6. SigningMessage(generated) \in MessagesFor(t) /\ SigningMessage(t) \in MessagesFor(t)
    BY <1>6, <2>4 DEF MessagesFor, Sponsored
  <2>7. \A r \in sponsors : Paid(generated, r) = t
    BY <2>2
  <2> QED
    BY <2>5, <2>6, <2>7
<1> QED
  BY <1>5, <1>6

\* What a submission was made of, and what became of it.
Submitted(o) ==
    LET t == o.signed.transaction
    IN  /\ IsVersion(t)
        /\ o.sender.as = "signer" => SignsVersions(o.sender.authenticator)
        /\ \A i \in DOMAIN o.secondary :
              o.secondary[i].as = "signer" => SignsVersions(o.secondary[i].authenticator)
        /\ Sponsored(t) /\ o.feePayer.as = "feePayer" => SignsPaid(o.feePayer.authenticator)
        /\ o.signed.sender = o.sender.authenticator
        /\ IF Sponsored(t) \/ t.secondarySignerAddresses # Nothing
             THEN /\ DOMAIN o.signed.secondary = DOMAIN o.secondary
                  /\ \A i \in DOMAIN o.secondary :
                        o.signed.secondary[i] = o.secondary[i].authenticator
             ELSE o.signed.secondary = <<>>
        /\ Sponsored(t) => o.signed.feePayer = o.feePayer.authenticator

LEMMA SubmittedIsAccepted ==
  ASSUME NothingIsNoFunction, Provenance, generated # Nothing, \A a, b \in sponsors : a = b,
         NEW o, Submitted(o), RightParties(o)
  PROVE  NodeAccepts(o.signed)
<1> DEFINE t == o.signed.transaction
<1>1. IsVersion(t) /\ (Sponsored(t) => t.feePayerAddress \in Addresses)
  BY DEF Submitted, RightParties, Fits, IsOf, Addresses, Sponsored
<1>2. /\ \A v : IsVersion(v) => SigningMessage(v) \in MessagesFor(t)
      /\ Sponsored(t) => \A s \in sponsors : SigningMessage(Paid(generated, s)) = SigningMessage(t)
  <2> HIDE DEF t
  <2> QED
    BY <1>1, VersionMessages
<1>3. \A a : SignsVersions(a) => Signs(a, MessagesFor(t))
  BY <1>2 DEF SignsVersions, Signs
<1>4. Sponsored(t) => \A a : SignsPaid(a) => Signs(a, {SigningMessage(t)})
  BY <1>2 DEF SignsPaid, Signs
<1>5. /\ IsOf(o.signed.sender, t.sender) /\ Enough(o.signed.sender)
      /\ Signs(o.signed.sender, MessagesFor(t))
  BY <1>3 DEF Submitted, RightParties, Fits
<1>6. /\ DOMAIN o.signed.secondary = DOMAIN Secondary(t)
      /\ \A i \in DOMAIN o.signed.secondary :
           /\ IsOf(o.signed.secondary[i], Secondary(t)[i]) /\ Enough(o.signed.secondary[i])
           /\ Signs(o.signed.secondary[i], MessagesFor(t))
  <2>1. CASE Sponsored(t) \/ t.secondarySignerAddresses # Nothing
    BY <1>3, <2>1 DEF Submitted, RightParties, Fits
  <2>2. CASE ~(Sponsored(t) \/ t.secondarySignerAddresses # Nothing)
    <3>1. o.signed.secondary = <<>> /\ Secondary(t) = <<>>
      BY <2>2 DEF Submitted, Secondary
    <3> QED
      BY <3>1
  <2> QED
    BY <2>1, <2>2
<1>7. t.feePayerAddress # Nothing =>
         /\ IsOf(o.signed.feePayer, t.feePayerAddress) /\ Enough(o.signed.feePayer)
         /\ Signs(o.signed.feePayer, {SigningMessage(t)})
  BY <1>4 DEF Submitted, RightParties, Fits, Sponsored
<1> QED
  BY <1>5, <1>6, <1>7 DEF NodeAccepts

LEMMA SubmitHolds ==
  ASSUME NothingIsNoFunction, Provenance, generated # Nothing,
         NEW t, IsVersion(t),
         NEW sender, sender.as = "signer" => SignsVersions(sender.authenticator),
         NEW additional, additional = Nothing \/ \A i \in DOMAIN additional : IsMade(additional[i]),
         NEW feePayer, feePayer = Nothing \/ IsMade(feePayer),
         submitTransaction(t, sender, additional, feePayer), sponsors' = sponsors
  PROVE  SubmittedVerifies'
<1> DEFINE others == IF additional = Nothing THEN Nothing
                     ELSE [i \in DOMAIN additional |-> additional[i].authenticator]
           payer == IF feePayer = Nothing THEN Nothing ELSE feePayer.authenticator
           signed == generateSignedTransaction(t, sender.authenticator, others, payer)
           o == [kind |-> "submitted", signed |-> signed, sender |-> sender,
                 secondary |-> IF additional = Nothing THEN <<>> ELSE additional,
                 feePayer |-> feePayer]
<1>1. submission' = IF signed = Nothing THEN Threw ELSE o
  BY Zenon DEF submitTransaction
<1>2. CASE signed = Nothing
  BY <1>1, <1>2 DEF SubmittedVerifies, Threw
<1>3. CASE signed # Nothing
  <2>1. additional # Nothing => others # Nothing
    <3> DEFINE f == [i \in DOMAIN additional |-> additional[i].authenticator]
    <3>1. f = [i \in DOMAIN f |-> f[i]]
      OBVIOUS
    <3> HIDE DEF f
    <3>2. f # Nothing
      BY <3>1, ObjectsAreThere
    <3> QED
      BY <3>2 DEF f
  <2>2. \A i \in DOMAIN o.secondary : IsMade(o.secondary[i])
    OBVIOUS
  <2>3. feePayer # Nothing => IsMade(feePayer)
    OBVIOUS
  <2>4. /\ signed.transaction = t /\ signed.sender = sender.authenticator
        /\ Sponsored(t) => feePayer # Nothing /\ signed.feePayer = feePayer.authenticator
        /\ IF Sponsored(t) \/ t.secondarySignerAddresses # Nothing
             THEN /\ DOMAIN signed.secondary = DOMAIN o.secondary
                  /\ \A i \in DOMAIN o.secondary : signed.secondary[i] = o.secondary[i].authenticator
             ELSE signed.secondary = <<>>
    <3> USE DEF generateSignedTransaction, FeePayerAuthenticator, MultiAgentAuthenticator,
                SignedTransaction, Sponsored
    <3>1. CASE Sponsored(t)
      <4>1. feePayer # Nothing /\ signed = FeePayerAuthenticator(t, sender.authenticator,
                                     IF others = Nothing THEN <<>> ELSE others, payer)
        BY <1>3, <3>1
      <4> QED
        BY <2>1, <3>1, <4>1
    <3>2. CASE ~Sponsored(t) /\ t.secondarySignerAddresses # Nothing
      <4>1. additional # Nothing /\ signed = MultiAgentAuthenticator(t, sender.authenticator, others)
        BY <1>3, <3>2
      <4> QED
        BY <2>1, <3>2, <4>1
    <3>3. CASE ~Sponsored(t) /\ t.secondarySignerAddresses = Nothing
      BY <3>3
    <3> QED
      BY <3>1, <3>2, <3>3
  <2> HIDE DEF signed
  <2>5. /\ o.sender = sender /\ o.feePayer = feePayer /\ o.signed = signed /\ o.kind = "submitted"
    OBVIOUS
  <2> HIDE DEF o
  <2>6. \A x : IsMade(x) => /\ x.as = "signer" => SignsVersions(x.authenticator)
                            /\ x.as = "feePayer" => SignsPaid(x.authenticator)
    BY MadeSigns
  <2>7. Submitted(o)
    BY <2>2, <2>3, <2>4, <2>5, <2>6 DEF Submitted
  <2>8. (\A a, b \in sponsors : a = b) /\ RightParties(o) => NodeAccepts(o.signed)
    BY <2>7, SubmittedIsAccepted
  <2>9. submission' = o
    BY <1>1, <1>3
  <2>10. SubmittedVerifies'
    <3>1. submission'.kind = "submitted" /\ RightParties(submission') /\ (\A a, b \in sponsors' : a = b)
          => NodeAccepts(submission'.signed)
      BY <2>8, <2>9
    <3>2. RightParties(submission)' <=> RightParties(submission')
      BY DEF RightParties, Fits, IsOf, Enough
    <3> QED
      BY <3>1, <3>2 DEF SubmittedVerifies, NodeAccepts, IsOf, Enough, Signs
  <2> QED
    BY <2>10
<1> QED
  BY <1>2, <1>3

\* The authenticators of single signers that become one.
LEMMA JoinedSigns ==
  ASSUME NEW parts, \A i \in DOMAIN parts : IsMade(parts[i]),
         \A i \in DOMAIN parts : DOMAIN parts[i].authenticator.signatures = {1},
         Joined(parts).as = "signer"
  PROVE  SignsVersions(Joined(parts).authenticator)
<1>1. ASSUME NEW i \in DOMAIN parts
      PROVE  \E t : IsVersion(t) /\ parts[i].authenticator.signatures[1]
                = Signature(parts[i].authenticator.publicKey.keys[1], SigningMessage(t))
  <2>1. parts[i].as = "signer"
    BY DEF Joined
  <2>2. SignsVersions(parts[i].authenticator)
    BY <2>1, MadeSigns
  <2> QED
    BY <2>2 DEF SignsVersions
<1> QED
  BY <1>1 DEF SignsVersions, Joined, Authenticator, PublicKey

LEMMA FewFacts ==
  ASSUME NEW T, NEW l \in Few(T)
  PROVE  \A i \in DOMAIN l : l[i] \in T
  BY DEF Few

LEMMA ThrewHolds ==
  ASSUME submission' = Threw
  PROVE  SubmittedVerifies' /\ SimulationMirrorsSubmission'
  BY DEF SubmittedVerifies, SimulationMirrorsSubmission, Threw

LEMMA EndsVerify ==
  ASSUME NothingIsNoFunction, Provenance, NEW c \in Clients, Ends(c)
  PROVE  SubmittedVerifies'
<1>1. generated # Nothing /\ IsVersion(copy[c]) /\ sponsors' = sponsors
  <2>1. Working(c) /\ sponsors' = sponsors
    BY DEF Ends, simple, multiAgent, multiAuthKey, simulate, mock, signAndSubmit
  <2> QED
    BY <2>1, WorkingFacts
<1>2. \A x \in authenticators : IsMade(x) /\ (x.as = "signer" => SignsVersions(x.authenticator))
  <2>1. \A x \in authenticators : IsMade(x)
    BY DEF Provenance
  <2> QED
    BY <2>1, MadeSigns
<1>3. CASE simple(c)
  <2>1. PICK sender \in authenticators, feePayer \in authenticators \cup {Nothing} :
          IF LacksFeePayer(copy[c], feePayer) THEN submission' = Threw
          ELSE submitTransaction(copy[c], sender, Nothing, feePayer)
    BY <1>3 DEF simple
  <2> QED
    BY <1>1, <1>2, <2>1, ThrewHolds, SubmitHolds
<1>4. CASE multiAgent(c)
  <2>1. PICK sender \in authenticators, additional \in Few(authenticators),
             feePayer \in authenticators \cup {Nothing} :
          IF LacksFeePayer(copy[c], feePayer) THEN submission' = Threw
          ELSE submitTransaction(copy[c], sender, additional, feePayer)
    BY <1>4 DEF multiAgent
  <2>2. \A i \in DOMAIN additional : IsMade(additional[i])
    BY <1>2, FewFacts
  <2> QED
    BY <1>1, <1>2, <2>1, <2>2, ThrewHolds, SubmitHolds
<1>5. CASE multiAuthKey(c)
  <2> DEFINE Singles == {x \in authenticators : DOMAIN x.authenticator.signatures = {1}}
  <2>1. PICK parts \in Few(Singles) :
          IF LacksFeePayer(copy[c], Nothing) THEN submission' = Threw
          ELSE submitTransaction(copy[c], Joined(parts), Nothing, Nothing)
    BY <1>5 DEF multiAuthKey
  <2>2. \A i \in DOMAIN parts : parts[i] \in Singles
    BY FewFacts
  <2>3. \A i \in DOMAIN parts : IsMade(parts[i]) /\ DOMAIN parts[i].authenticator.signatures = {1}
    BY <1>2, <2>2
  <2>4. Joined(parts).as = "signer" => SignsVersions(Joined(parts).authenticator)
    BY <2>3, JoinedSigns
  <2> QED
    BY <1>1, <2>1, <2>4, ThrewHolds, SubmitHolds
<1>6. ASSUME NEW p \in People, signAndSubmit(c, p)
      PROVE  SubmittedVerifies'
  <2> DEFINE own == [as |-> "signer", authenticator |-> signWithAuthenticator(p, SigningMessage(copy[c]))]
  <2>1. submitTransaction(copy[c], own, Nothing, Nothing)
    BY <1>6 DEF signAndSubmit
  <2>2. IsMade(own)
    BY <1>1 DEF IsMade
  <2>3. own.as = "signer" => SignsVersions(own.authenticator)
    BY <2>2, MadeSigns
  <2> HIDE DEF own
  <2> QED
    BY <1>1, <2>1, <2>3, SubmitHolds
<1>7. CASE simulate(c) \/ mock(c)
  <2>1. ASSUME NEW p, NEW secondary, NEW feePayer, simulateTransaction(copy[c], p, secondary, feePayer)
        PROVE  submission'.kind \in {"threw", "simulated"}
    BY <2>1 DEF simulateTransaction, Threw
  <2>2. submission'.kind \in {"threw", "simulated", "mocked"}
    BY <1>7, <2>1 DEF simulate, mock, mockTransaction, Threw
  <2> QED
    BY <2>2 DEF SubmittedVerifies
<1> QED
  BY <1>3, <1>4, <1>5, <1>6, <1>7 DEF Ends

\* Before the end nothing has come of it, and afterwards nothing happens.
LEMMA BeforeTheEnd ==
  ASSUME Provenance, [SigningNext]_signingVars, ~\E c \in Clients : Ends(c)
  PROVE  \/ submission' = NoOutcome
         \/ UNCHANGED signingVars
<1>1. CASE generateTransaction(Generator)
  <2>1. submission = NoOutcome
    BY <1>1 DEF generateTransaction, Provenance
  <2> QED
    BY <1>1, <2>1 DEF generateTransaction
<1>2. ASSUME NEW c \in Clients,
             \/ \E d \in Clients : Pass(c, d)
             \/ \E p \in People : transaction(c, p) \/ transactionAsFeePayer(c, p)
      PROVE  submission' = NoOutcome
  BY <1>2 DEF Pass, transaction, transactionAsFeePayer, Working
<1> QED
  BY <1>1, <1>2 DEF SigningNext, Ends

LEMMA VerifiesStep ==
  ASSUME NothingIsNoFunction, Provenance, SubmittedVerifies,
         [SigningNext]_signingVars
  PROVE  SubmittedVerifies'
<1>1. CASE \E c \in Clients : Ends(c)
  BY <1>1, EndsVerify
<1>2. CASE UNCHANGED signingVars
  BY <1>2 DEF signingVars, SubmittedVerifies, RightParties, Fits, IsOf, Enough, NodeAccepts, Signs
<1>3. CASE submission' = NoOutcome
  BY <1>3 DEF SubmittedVerifies, NoOutcome
<1> QED
  BY <1>1, <1>2, <1>3, BeforeTheEnd

\* Whatever accounts, programs and transactions there are, and however many
\* signatures are made in whatever order (transactions/management and
\* api/transactionSubmission/sign.ts): the node accepts what the right accounts
\* signed and a program submits, unless two accounts signed as its fee payer.
THEOREM SubmittedVerifiesHolds ==
  ASSUME NothingIsNoFunction
  PROVE  SigningSpec => []SubmittedVerifies
<1>1. SigningInit => Provenance /\ SubmittedVerifies
  BY ProvenanceInitially DEF SigningInit, SubmittedVerifies, NoOutcome
<1>2. Provenance /\ SubmittedVerifies /\ [SigningNext]_signingVars => (Provenance /\ SubmittedVerifies)'
  BY ProvenanceStep, VerifiesStep
<1> QED
  BY <1>1, <1>2, PTL DEF SigningSpec

-----------------------------------------------------------------------------
\* Simulation.  What SimulationMirrorsSubmission says of an outcome.
Mirrors(o) ==
  /\ o.kind = "simulated" =>
       LET t == o.signed.transaction
           By(p) == signWithAuthenticator(p, SigningMessage(t))
           real == generateSignedTransaction(t, By(o.sender),
                     IF o.secondary = Nothing THEN Nothing
                     ELSE [i \in DOMAIN o.secondary |-> By(o.secondary[i])],
                     IF o.feePayer = Nothing THEN Nothing ELSE By(o.feePayer))
       IN  real # Nothing /\ Shape(o.signed) = Shape(real) /\ ~NodeAccepts(o.signed)
  /\ o.kind = "mocked" =>
       LET signed == o.signed
       IN  /\ DOMAIN signed.secondary = DOMAIN Secondary(signed.transaction)
           /\ ~NodeAccepts(signed)

LEMMA MirrorsFacts ==
  /\ SimulationMirrorsSubmission <=> Mirrors(submission)
  /\ SimulationMirrorsSubmission' <=> Mirrors(submission')
BY DEF SimulationMirrorsSubmission, Mirrors

\* The authenticator of zeros for an account has the class and the key of a real one.
LEMMA SimulationFacts ==
  ASSUME NEW p, IsAccount(p), getAuthenticatorForSimulation(p.publicKey) # Nothing, NEW message
  PROVE  LET sim == getAuthenticatorForSimulation(p.publicKey)
         IN  /\ sim.class = signWithAuthenticator(p, message).class
             /\ Unsigned(sim) = Unsigned(signWithAuthenticator(p, message))
             /\ 1 \in DOMAIN sim.signatures /\ sim.signatures[1] = Zeros
<1> DEFINE sim == getAuthenticatorForSimulation(p.publicKey)
           real == signWithAuthenticator(p, message)
<1>1. real.class = p.authenticator /\ real.publicKey = Normalized(p.publicKey)
  BY SignedFacts
<1> USE DEF Authenticator
<1>2. CASE p.publicKey.class = "Ed25519PublicKey"
  <2>1. sim = Authenticator("AccountAuthenticatorEd25519", p.publicKey, [i \in {1} |-> Zeros])
    BY <1>2 DEF getAuthenticatorForSimulation
  <2>2. p.authenticator = "AccountAuthenticatorEd25519" /\ Normalized(p.publicKey) = p.publicKey
    BY <1>2 DEF IsAccount, Classes, Normalized
  <2> HIDE DEF sim, real
  <2>3. sim.class = real.class /\ sim.publicKey = real.publicKey
    BY <1>1, <2>1, <2>2
  <2>4. 1 \in DOMAIN sim.signatures /\ sim.signatures[1] = Zeros
    BY <2>1
  <2> QED
    BY <2>3, <2>4 DEF Unsigned, sim, real
<1>3. CASE p.publicKey.class = "AnyPublicKey"
  <2>1. sim = Authenticator("AccountAuthenticatorSingleKey", p.publicKey, [i \in {1} |-> Zeros])
    BY <1>3 DEF getAuthenticatorForSimulation
  <2>2. p.authenticator = "AccountAuthenticatorSingleKey" /\ Normalized(p.publicKey) = p.publicKey
    BY <1>3 DEF IsAccount, Classes, Normalized
  <2> HIDE DEF sim, real
  <2>3. sim.class = real.class /\ sim.publicKey = real.publicKey
    BY <1>1, <2>1, <2>2
  <2>4. 1 \in DOMAIN sim.signatures /\ sim.signatures[1] = Zeros
    BY <2>1
  <2> QED
    BY <2>3, <2>4 DEF Unsigned, sim, real
<1>4. CASE p.publicKey.class = "KeylessPublicKey"
  <2>1. sim = Authenticator("AccountAuthenticatorSingleKey", AnyPublicKey(p.publicKey.keys[1]),
                            [i \in {1} |-> Zeros])
    BY <1>4 DEF getAuthenticatorForSimulation
  <2>2. /\ p.authenticator = "AccountAuthenticatorSingleKey"
        /\ Normalized(p.publicKey) = AnyPublicKey(p.publicKey.keys[1])
    BY <1>4 DEF IsAccount, Classes, Normalized
  <2> HIDE DEF sim, real
  <2>3. sim.class = real.class /\ sim.publicKey = real.publicKey
    BY <1>1, <2>1, <2>2
  <2>4. 1 \in DOMAIN sim.signatures /\ sim.signatures[1] = Zeros
    BY <2>1
  <2> QED
    BY <2>3, <2>4 DEF Unsigned, sim, real
<1>5. CASE p.publicKey.class \notin {"Ed25519PublicKey", "AnyPublicKey", "KeylessPublicKey"}
  <2>1. sim = Nothing
    BY <1>5 DEF getAuthenticatorForSimulation
  <2> QED
    BY <2>1
<1> QED
  BY <1>2, <1>3, <1>4, <1>5

\* Zeros are no signature of a transaction.
LEMMA ZerosAreRefused ==
  ASSUME NothingIsNoFunction, NEW signed, 1 \in DOMAIN signed.sender.signatures,
         signed.sender.signatures[1] = Zeros
  PROVE  ~NodeAccepts(signed)
<1> DEFINE t == signed.transaction
<1>1. \A v : SigningMessage(v) # Nothing
  <2> SUFFICES ASSUME NEW v PROVE SigningMessage(v) # Nothing
    OBVIOUS
  <2>1. SigningMessage(v) = [x \in DOMAIN SigningMessage(v) |-> SigningMessage(v)[x]]
    BY DEF SigningMessage
  <2> QED
    BY <2>1, ObjectsAreThere
<1>2. Nothing \notin MessagesFor(t)
  BY <1>1 DEF MessagesFor
<1>3. \A key, message : Zeros = Signature(key, message) => message = Nothing
  BY DEF Zeros, Signature
<1>4. ~Signs(signed.sender, MessagesFor(t))
  BY <1>2, <1>3 DEF Signs
<1> QED
  BY <1>4 DEF NodeAccepts

\* An address is no account's key.
LEMMA MocksAreRefused ==
  ASSUME NEW signed, NEW address, signed.sender = Mock(address)
  PROVE  ~NodeAccepts(signed)
<1>1. signed.sender.publicKey.class = "AccountAddress"
  BY DEF Mock, Authenticator, PublicKey
<1>2. ASSUME NEW p \in People
      PROVE  Normalized(p.publicKey).class # "AccountAddress"
  <2>1. IsAccount(p)
    BY SigningAssumption DEF SigningAssumption
  <2> QED
    BY <2>1 DEF IsAccount, Classes, Normalized, AnyPublicKey, PublicKey
<1> QED
  BY <1>1, <1>2 DEF NodeAccepts, IsOf

\* A list with one more member that has no undefined one.
LEMMA NoneThrows ==
  ASSUME NEW n \in Nat, NEW list, DOMAIN list = 1 .. n, list = [i \in 1 .. n |-> list[i]],
         NEW x, ~AnyThrows(Append(list, x))
  PROVE  ~AnyThrows(list) /\ x # Nothing
<1> DEFINE T == {list[i] : i \in 1 .. n} \cup {x}
<1>1. list \in Seq(T) /\ x \in T /\ Len(list) = n
  <2>1. \A i \in 1 .. n : list[i] \in T
    OBVIOUS
  <2>2. list \in [1 .. n -> T]
    BY <2>1
  <2> QED
    BY <2>2
<1> HIDE DEF T
<1>2. /\ DOMAIN Append(list, x) = 1 .. (n + 1)
      /\ \A i \in 1 .. n : Append(list, x)[i] = list[i]
      /\ Append(list, x)[n + 1] = x
  BY <1>1
<1> QED
  BY <1>2 DEF AnyThrows

\* What the simulation of some accounts' transaction is made of, and what they
\* would submit.
KeysOf(secondary) ==
  IF secondary = Nothing THEN Nothing ELSE [i \in DOMAIN secondary |-> secondary[i].publicKey]

Simulated(t, sender, secondary, feePayer) ==
  generateSignedTransactionForSimulation(t, sender.publicKey, KeysOf(secondary),
    IF feePayer = Nothing THEN Nothing ELSE feePayer.publicKey)

Real(t, sender, secondary, feePayer) ==
  LET By(p) == signWithAuthenticator(p, SigningMessage(t))
  IN  generateSignedTransaction(t, By(sender),
        IF secondary = Nothing THEN Nothing ELSE [i \in DOMAIN secondary |-> By(secondary[i])],
        IF feePayer = Nothing THEN Nothing ELSE By(feePayer))

\* What is simulated has a signature of zeros for each real one.
LEMMA ShapeFacts ==
  ASSUME NothingIsNoFunction, NEW t, NEW sender, IsAccount(sender),
         NEW secondary,
         secondary = Nothing \/ \E n \in Nat : DOMAIN secondary = 1 .. n
                                  /\ \A i \in 1 .. n : IsAccount(secondary[i]),
         NEW feePayer, Sponsored(t) => feePayer # Nothing /\ IsAccount(feePayer)
  PROVE  LET signed == Simulated(t, sender, secondary, feePayer)
             real   == Real(t, sender, secondary, feePayer)
         IN  signed # Nothing =>
               real # Nothing /\ Shape(signed) = Shape(real) /\ ~NodeAccepts(signed)
                 /\ signed.transaction = t
<1> DEFINE keys   == IF secondary = Nothing THEN Nothing
                     ELSE [i \in DOMAIN secondary |-> secondary[i].publicKey]
           payer  == IF feePayer = Nothing THEN Nothing ELSE feePayer.publicKey
           signed == generateSignedTransactionForSimulation(t, sender.publicKey, keys, payer)
           By(p) == signWithAuthenticator(p, SigningMessage(t))
           bys    == IF secondary = Nothing THEN Nothing
                     ELSE [i \in DOMAIN secondary |-> By(secondary[i])]
           byPayer == IF feePayer = Nothing THEN Nothing ELSE By(feePayer)
           real == generateSignedTransaction(t, By(sender), bys, byPayer)
           sim(p) == getAuthenticatorForSimulation(p.publicKey)
           others == IF keys = Nothing THEN <<>> ELSE forSimulation(keys)
           reals  == IF bys = Nothing THEN <<>> ELSE bys
<1> SUFFICES ASSUME signed # Nothing
             PROVE  /\ real # Nothing /\ Shape(signed) = Shape(real) /\ ~NodeAccepts(signed)
                    /\ signed.transaction = t
  BY Zenon DEF Simulated, Real, KeysOf
<1>1. sim(sender) # Nothing
  BY DEF generateSignedTransactionForSimulation
<1>2. secondary # Nothing =>
        /\ keys # Nothing /\ bys # Nothing
        /\ others = [i \in DOMAIN secondary |-> sim(secondary[i])]
        /\ reals = [i \in DOMAIN secondary |-> By(secondary[i])]
  <2> DEFINE k == [i \in DOMAIN secondary |-> secondary[i].publicKey]
             b == [i \in DOMAIN secondary |-> By(secondary[i])]
  <2>1. k = [i \in DOMAIN k |-> k[i]] /\ b = [i \in DOMAIN b |-> b[i]]
    OBVIOUS
  <2>2. k # Nothing /\ b # Nothing
    <3> HIDE DEF k, b
    <3> QED
      BY <2>1, ObjectsAreThere
  <2>3. forSimulation(k) = [i \in DOMAIN secondary |-> sim(secondary[i])]
    BY DEF forSimulation
  <2> QED
    BY <2>2, <2>3
<1>3. secondary = Nothing => keys = Nothing /\ bys = Nothing /\ others = <<>> /\ reals = <<>>
  OBVIOUS
<1> HIDE DEF keys, bys, sim, By, others, reals
<1>4. ASSUME ~AnyThrows(others)
      PROVE  /\ DOMAIN others = DOMAIN reals
             /\ \A i \in DOMAIN others : Unsigned(others[i]) = Unsigned(reals[i])
  <2>1. CASE secondary = Nothing
    BY <1>3, <2>1
  <2>2. CASE secondary # Nothing
    <3>1. \A i \in DOMAIN secondary : IsAccount(secondary[i]) /\ sim(secondary[i]) # Nothing
      BY <1>2, <1>4, <2>2 DEF AnyThrows
    <3>2. \A i \in DOMAIN secondary : Unsigned(sim(secondary[i])) = Unsigned(By(secondary[i]))
      BY <3>1, SimulationFacts DEF sim, By
    <3> QED
      BY <1>2, <2>2, <3>2
  <2> QED
    BY <2>1, <2>2
<1>5. /\ sim(sender).class = By(sender).class /\ Unsigned(sim(sender)) = Unsigned(By(sender))
      /\ 1 \in DOMAIN sim(sender).signatures /\ sim(sender).signatures[1] = Zeros
  BY <1>1, SimulationFacts DEF sim, By
\* In each of the three branches, with what stands in the five places.
<1>6. ASSUME NEW class, NEW mine, NEW theirs, NEW fee, NEW realFee,
             signed = SignedTransaction(t, class, sim(sender), mine, fee),
             real = SignedTransaction(t, class, By(sender), theirs, realFee),
             DOMAIN mine = DOMAIN theirs, \A i \in DOMAIN mine : Unsigned(mine[i]) = Unsigned(theirs[i]),
             (fee = Nothing /\ realFee = Nothing)
               \/ (fee # Nothing /\ realFee # Nothing /\ Unsigned(fee) = Unsigned(realFee))
      PROVE  /\ real # Nothing /\ Shape(signed) = Shape(real) /\ ~NodeAccepts(signed)
             /\ signed.transaction = t
  <2>1. real = [x \in DOMAIN real |-> real[x]]
    BY <1>6 DEF SignedTransaction
  <2>2. real # Nothing
    <3> HIDE DEF real
    <3> QED
      BY <2>1, ObjectsAreThere
  <2> HIDE DEF signed, real
  <2>3. /\ signed.transaction = t /\ signed.class = class /\ signed.sender = sim(sender)
        /\ signed.secondary = mine /\ signed.feePayer = fee
        /\ real.transaction = t /\ real.class = class /\ real.sender = By(sender)
        /\ real.secondary = theirs /\ real.feePayer = realFee
    BY <1>6 DEF SignedTransaction
  <2>4. ~NodeAccepts(signed)
    BY <1>5, <2>3, ZerosAreRefused
  <2>5. [i \in DOMAIN mine |-> Unsigned(mine[i])] = [i \in DOMAIN theirs |-> Unsigned(theirs[i])]
    BY <1>6
  <2>6. Shape(signed) = Shape(real)
    BY <1>5, <1>6, <2>3, <2>5 DEF Shape
  <2> QED
    BY <2>2, <2>3, <2>4, <2>6
<1>7. CASE Sponsored(t)
  <2>1. feePayer # Nothing /\ IsAccount(feePayer)
    BY <1>7
  <2> DEFINE fee == sim(feePayer)
             realFee == By(feePayer)
  <2>2. ~AnyThrows(Append(others, fee)) /\ signed = FeePayerAuthenticator(t, sim(sender), others, fee)
    <3>1. getAuthenticatorForSimulation(payer) = fee
      BY <2>1 DEF sim
    <3> QED
      BY <1>1, <1>7, <3>1 DEF generateSignedTransactionForSimulation, Sponsored, sim, others
  <2>3. ~AnyThrows(others) /\ fee # Nothing
    <3>1. \E n \in Nat : DOMAIN others = 1 .. n /\ others = [i \in 1 .. n |-> others[i]]
      <4>1. CASE secondary = Nothing
        <5>1. DOMAIN others = 1 .. 0 /\ others = [i \in 1 .. 0 |-> others[i]]
          BY <1>3, <4>1
        <5> QED
          BY <5>1
      <4>2. CASE secondary # Nothing
        BY <1>2, <4>2
      <4> QED
        BY <4>1, <4>2
    <3> HIDE DEF fee
    <3> QED
      BY <2>2, <3>1, NoneThrows
  <2>4. Unsigned(fee) = Unsigned(realFee)
    BY <2>1, <2>3, SimulationFacts DEF sim, By
  <2>5. realFee # Nothing
    <3>1. realFee = [x \in DOMAIN realFee |-> realFee[x]]
      BY DEF By, signWithAuthenticator, Authenticator
    <3> HIDE DEF realFee
    <3> QED
      BY <3>1, ObjectsAreThere
  <2>6. real = FeePayerAuthenticator(t, By(sender), reals, realFee)
    BY <1>7, <2>1, <2>5 DEF generateSignedTransaction, Sponsored, reals
  <2> HIDE DEF fee, realFee, signed, real
  <2> QED
    BY <1>4, <1>6, <2>2, <2>3, <2>4, <2>5, <2>6 DEF FeePayerAuthenticator
<1>8. CASE ~Sponsored(t) /\ t.secondarySignerAddresses # Nothing
  <2>1. keys # Nothing /\ ~AnyThrows(others) /\ signed = MultiAgentAuthenticator(t, sim(sender), others)
    BY <1>1, <1>8 DEF generateSignedTransactionForSimulation, Sponsored, sim, others
  <2>2. bys # Nothing /\ real = MultiAgentAuthenticator(t, By(sender), reals)
    BY <1>2, <1>3, <1>8, <2>1 DEF generateSignedTransaction, Sponsored, reals
  <2> HIDE DEF signed, real
  <2> QED
    BY <1>4, <1>6, <2>1, <2>2 DEF MultiAgentAuthenticator
<1>9. CASE ~Sponsored(t) /\ t.secondarySignerAddresses = Nothing
  <2> DEFINE class == IF By(sender).class = "AccountAuthenticatorEd25519" THEN "Ed25519" ELSE "SingleSender"
  <2>1. signed = SignedTransaction(t, class, sim(sender), <<>>, Nothing)
    BY <1>1, <1>5, <1>9 DEF generateSignedTransactionForSimulation, Sponsored, sim
  <2>2. real = SignedTransaction(t, class, By(sender), <<>>, Nothing)
    BY <1>9 DEF generateSignedTransaction, Sponsored
  <2> HIDE DEF signed, real, class
  <2> QED
    BY <1>6, <2>1, <2>2
<1> QED
  BY <1>7, <1>8, <1>9

LEMMA simulateMirrors ==
  ASSUME NothingIsNoFunction, NEW c \in Clients, simulate(c)
  PROVE  SimulationMirrorsSubmission'
<1> DEFINE t == copy[c]
<1>1. PICK sender \in People, secondary \in {Nothing} \cup Few(People), feePayer \in People \cup {Nothing} :
        IF LacksFeePayer(t, feePayer) THEN submission' = Threw
        ELSE simulateTransaction(t, sender, secondary, feePayer)
  BY DEF simulate
<1>2. CASE LacksFeePayer(t, feePayer)
  BY <1>1, <1>2, ThrewHolds
<1>3. CASE ~LacksFeePayer(t, feePayer)
  <2>1. \A p \in People : IsAccount(p)
    BY SigningAssumption DEF SigningAssumption
  <2>2. Sponsored(t) => feePayer # Nothing /\ IsAccount(feePayer)
    BY <1>3, <2>1 DEF LacksFeePayer, Sponsored
  <2>3. secondary = Nothing \/ \E n \in Nat : DOMAIN secondary = 1 .. n
                                  /\ \A i \in 1 .. n : IsAccount(secondary[i])
    <3>1. CASE secondary \in Few(People)
      <4>1. DOMAIN secondary \in {1 .. 0, 1 .. 1, 1 .. 2}
        BY <3>1 DEF Few
      <4>2. \A i \in DOMAIN secondary : IsAccount(secondary[i])
        BY <2>1, <3>1, FewFacts
      <4> QED
        BY <4>1, <4>2
    <3> QED
      BY <3>1
  <2> DEFINE signed == Simulated(t, sender, secondary, feePayer)
             real   == Real(t, sender, secondary, feePayer)
             o == [kind |-> "simulated", signed |-> signed, sender |-> sender,
                   secondary |-> secondary, feePayer |-> feePayer]
  <2>4. submission' = IF signed = Nothing THEN Threw ELSE o
    BY <1>1, <1>3, Zenon DEF simulateTransaction, Simulated, KeysOf
  <2>5. signed # Nothing =>
          real # Nothing /\ Shape(signed) = Shape(real) /\ ~NodeAccepts(signed) /\ signed.transaction = t
    BY <2>1, <2>2, <2>3, ShapeFacts
  <2>6. CASE signed = Nothing
    BY <2>4, <2>6, ThrewHolds
  <2>7. CASE signed # Nothing
    <3>1. submission' = o
      BY <2>4, <2>7
    <3>2. Mirrors(o)
      <4>0. real = LET By(p) == signWithAuthenticator(p, SigningMessage(t))
                   IN  generateSignedTransaction(t, By(sender),
                         IF secondary = Nothing THEN Nothing
                         ELSE [i \in DOMAIN secondary |-> By(secondary[i])],
                         IF feePayer = Nothing THEN Nothing ELSE By(feePayer))
        BY Zenon DEF Real
      <4> HIDE DEF signed, real
      <4>1. o.kind = "simulated" /\ o.signed = signed /\ o.sender = sender
            /\ o.secondary = secondary /\ o.feePayer = feePayer
        OBVIOUS
      <4> HIDE DEF o
      <4> QED
        BY <2>5, <2>7, <4>0, <4>1, Zenon DEF Mirrors
    <3> HIDE DEF o
    <3> QED
      BY <3>1, <3>2, MirrorsFacts
  <2> QED
    BY <2>6, <2>7
<1> QED
  BY <1>2, <1>3

LEMMA mockMirrors ==
  ASSUME NEW c \in Clients, mock(c)
  PROVE  SimulationMirrorsSubmission'
<1> DEFINE t == copy[c]
           signed == generateMockSignedTransactionForSimulation(t)
           o == [kind |-> "mocked", signed |-> signed]
<1>1. CASE LacksFeePayer(t, Nothing)
  BY <1>1, ThrewHolds DEF mock
<1>2. CASE ~LacksFeePayer(t, Nothing)
  <2>1. submission' = o
    BY <1>2 DEF mock, mockTransaction
  <2>2. ~Sponsored(t)
    BY <1>2 DEF LacksFeePayer, Sponsored
  <2>3. signed.sender = Mock(t.sender) /\ signed.transaction = t
        /\ DOMAIN signed.secondary = DOMAIN Secondary(t)
    BY <2>2 DEF generateMockSignedTransactionForSimulation, Sponsored, MultiAgentAuthenticator,
                SignedTransaction, Secondary
  <2>4. ~NodeAccepts(signed)
    <3> HIDE DEF signed
    <3> QED
      BY <2>3, MocksAreRefused
  <2>5. o.kind = "mocked" /\ o.signed = signed
    OBVIOUS
  <2> HIDE DEF o, signed
  <2>6. Mirrors(o)
    BY <2>3, <2>4, <2>5 DEF Mirrors
  <2> QED
    BY <2>1, <2>6, MirrorsFacts
<1> QED
  BY <1>1, <1>2

LEMMA MirrorsStep ==
  ASSUME NothingIsNoFunction, Provenance, SimulationMirrorsSubmission,
         [SigningNext]_signingVars
  PROVE  SimulationMirrorsSubmission'
<1>1. ASSUME NEW c \in Clients, Ends(c)
      PROVE  SimulationMirrorsSubmission'
  <2>1. CASE simple(c) \/ multiAgent(c) \/ multiAuthKey(c) \/ \E p \in People : signAndSubmit(c, p)
    <3> DEFINE KindOK == submission'.kind \in {"threw", "submitted"}
    <3>1. \A t, sender, additional, feePayer :
            submitTransaction(t, sender, additional, feePayer) => KindOK
      BY DEF submitTransaction, Threw
    <3>2. submission' = Threw => KindOK
      BY DEF Threw
    <3>3. KindOK
      <4> HIDE DEF KindOK
      <4>1. CASE simple(c)
        BY <3>1, <3>2, <4>1, Zenon DEF simple
      <4>2. CASE multiAgent(c)
        BY <3>1, <3>2, <4>2, Zenon DEF multiAgent
      <4>3. CASE multiAuthKey(c)
        BY <3>1, <3>2, <4>3, Zenon DEF multiAuthKey
      <4>4. CASE \E p \in People : signAndSubmit(c, p)
        BY <3>1, <4>4, Zenon DEF signAndSubmit
      <4> QED
        BY <2>1, <4>1, <4>2, <4>3, <4>4
    <3>4. Mirrors(submission')
      BY <3>3 DEF Mirrors
    <3> QED
      BY <3>4, MirrorsFacts
  <2> QED
    BY <1>1, <2>1, simulateMirrors, mockMirrors DEF Ends
<1>2. CASE UNCHANGED signingVars
  BY <1>2, MirrorsFacts DEF signingVars
<1>3. CASE submission' = NoOutcome
  <2>1. Mirrors(submission')
    BY <1>3 DEF Mirrors, NoOutcome
  <2> QED
    BY <2>1, MirrorsFacts
<1> QED
  BY <1>1, <1>2, <1>3, BeforeTheEnd

\* For any accounts and transactions (generateSignedTransactionForSimulation): what
\* is simulated has the form of what the same accounts would submit, and the node
\* would refuse it if it were submitted.
THEOREM SimulationMirrorsSubmissionHolds ==
  ASSUME NothingIsNoFunction
  PROVE  SigningSpec => []SimulationMirrorsSubmission
<1>1. SigningInit => Provenance /\ SimulationMirrorsSubmission
  <2>1. SigningInit => Mirrors(submission)
    BY DEF SigningInit, NoOutcome, Mirrors
  <2> QED
    BY <2>1, ProvenanceInitially, MirrorsFacts
<1>2. Provenance /\ SimulationMirrorsSubmission /\ [SigningNext]_signingVars
      => (Provenance /\ SimulationMirrorsSubmission)'
  BY ProvenanceStep, MirrorsStep
<1> QED
  BY <1>1, <1>2, PTL DEF SigningSpec

-----------------------------------------------------------------------------
(***************************************************************************)
(* Verification.                                                           *)
(***************************************************************************)

\* Two positions of a finite set have the same rank only if they are the same.
LEMMA RankFacts ==
  ASSUME NEW positions, IsFiniteSet(positions), positions \subseteq Nat,
         NEW i \in positions
  PROVE  /\ ~(Rank(positions, i) > Cardinality(positions))
         /\ \A k \in positions : Rank(positions, k) = Rank(positions, i) => k = i
<1> DEFINE AtMost(k) == {j \in positions : j <= k}
<1>1. \A k : AtMost(k) \in SUBSET positions /\ Rank(positions, k) = Cardinality(AtMost(k))
  BY DEF Rank
<1>2. \A k : /\ IsFiniteSet(AtMost(k)) /\ Rank(positions, k) \in Nat
             /\ Rank(positions, k) <= Cardinality(positions)
  <2> TAKE k
  <2>1. AtMost(k) \in SUBSET positions /\ Rank(positions, k) = Cardinality(AtMost(k))
    BY <1>1
  <2> HIDE DEF AtMost
  <2>2. IsFiniteSet(AtMost(k)) /\ Cardinality(AtMost(k)) <= Cardinality(positions)
    BY <2>1, FS_Subset
  <2>3. Cardinality(AtMost(k)) \in Nat
    BY <2>2, FS_CardinalityType
  <2> QED
    BY <2>1, <2>2, <2>3
<1>3. ASSUME NEW k \in positions, NEW m \in positions, k < m
      PROVE  Rank(positions, k) # Rank(positions, m)
  <2>1. AtMost(k) \in SUBSET AtMost(m) /\ m \in AtMost(m) /\ m \notin AtMost(k)
    <3>0. k \in positions /\ m \in positions
      OBVIOUS
    <3>1. k \in Nat /\ m \in Nat /\ k < m /\ \A j \in positions : j \in Nat
      BY <1>3
    <3> QED
      <4>1. \A j \in positions : j <= k => j <= m
        BY <3>1
      <4>2. m <= m /\ ~(m <= k)
        BY <3>1
      <4> QED
        BY <3>0, <4>1, <4>2
  <2>2. IsFiniteSet(AtMost(m)) /\ Rank(positions, k) = Cardinality(AtMost(k))
        /\ Rank(positions, m) = Cardinality(AtMost(m))
    BY <1>1, <1>2
  <2> HIDE DEF AtMost
  <2> QED
    BY <2>1, <2>2, FS_Subset
<1>4. \A k \in positions : Rank(positions, k) = Rank(positions, i) => k = i
  <2> SUFFICES ASSUME NEW k \in positions, Rank(positions, k) = Rank(positions, i) PROVE k = i
    OBVIOUS
  <2>1. k \in Nat /\ i \in Nat
    OBVIOUS
  <2>2. ~(k < i) /\ ~(i < k)
    BY <1>3
  <2> QED
    BY <2>1, <2>2
<1>5. ~(Rank(positions, i) > Cardinality(positions))
  <2>1. Rank(positions, i) \in Nat /\ Cardinality(positions) \in Nat
        /\ Rank(positions, i) <= Cardinality(positions)
    BY <1>2, FS_CardinalityType
  <2> QED
    BY <2>1
<1> QED
  BY <1>4, <1>5

\* Ranks begin with 1.
LEMMA RankIsPositive ==
  ASSUME NEW positions, IsFiniteSet(positions), positions \subseteq Nat, NEW k \in positions
  PROVE  Rank(positions, k) \in Nat /\ 1 <= Rank(positions, k) /\ Rank(positions, k) <= Cardinality(positions)
<1> DEFINE AtMost == {j \in positions : j <= k}
<1>1. AtMost \in SUBSET positions /\ Rank(positions, k) = Cardinality(AtMost)
  BY DEF Rank
<1>2. k \in AtMost
  <2>1. k \in Nat
    OBVIOUS
  <2> QED
    BY <2>1
<1> HIDE DEF AtMost
<1>3. IsFiniteSet(AtMost) /\ Cardinality(AtMost) <= Cardinality(positions)
  BY <1>1, FS_Subset
<1>4. Cardinality(AtMost) # 0 /\ Cardinality(AtMost) \in Nat
  BY <1>2, <1>3, FS_EmptySet, FS_CardinalityType
<1> QED
  BY <1>1, <1>3, <1>4

\* Every number up to the size of a finite set of naturals is the rank of one of them.
LEMMA RankIsOnto ==
  ASSUME NEW positions, IsFiniteSet(positions), positions \subseteq Nat,
         NEW n \in Nat, 1 <= n, ~(n > Cardinality(positions))
  PROVE  \E k \in positions : Rank(positions, k) = n
<1> DEFINE size == Cardinality(positions)
           rank == [k \in positions |-> Rank(positions, k)]
<1>1. size \in Nat
  BY FS_CardinalityType
<1>2. \A k \in positions : Rank(positions, k) \in 1 .. size
  <2> TAKE k \in positions
  <2>1. Rank(positions, k) \in Nat /\ 1 <= Rank(positions, k) /\ Rank(positions, k) <= size
    BY RankIsPositive
  <2> HIDE DEF size
  <2> QED
    BY <1>1, <2>1
<1>3. rank \in Injection(positions, 1 .. size)
  <2>1. rank \in [positions -> 1 .. size]
    BY <1>2
  <2>2. \A j, k \in positions : rank[j] = rank[k] => j = k
    BY RankFacts
  <2> HIDE DEF rank, size
  <2> QED
    BY <2>1, <2>2 DEF Injection, IsInjective
<1>4. IsFiniteSet(1 .. size) /\ Cardinality(1 .. size) = size
  BY <1>1, FS_Interval
<1>5. rank \in Surjection(positions, 1 .. size)
  <2> HIDE DEF rank
  <2> QED
    BY <1>3, <1>4, FS_Injection
<1>6. n \in 1 .. size
  <2> HIDE DEF size
  <2> QED
    BY <1>1 DEF size
<1>7. \E k \in positions : rank[k] = n
  <2> HIDE DEF rank, size
  <2> QED
    BY <1>5, <1>6 DEF Surjection
<1> QED
  BY <1>7

\* The verdict of a loop is "yes" if every one in it is.
LEMMA AllOfMeans ==
  ASSUME NEW verdicts, DOMAIN verdicts \subseteq Nat
  PROVE  AllOf(verdicts) = "yes" <=> \A i \in DOMAIN verdicts : verdicts[i] = "yes"
<1> DEFINE bad == {i \in DOMAIN verdicts : verdicts[i] # "yes"}
<1>1. CASE bad = {}
  BY <1>1 DEF AllOf
<1>2. CASE bad # {}
  <2>1. \E i \in bad : \A j \in bad : i <= j
    <3>1. bad \in SUBSET Nat
      OBVIOUS
    <3> HIDE DEF bad
    <3> QED
      BY <1>2, <3>1, LeastNumber
  <2>2. (CHOOSE i \in bad : \A j \in bad : i <= j) \in bad
    <3> HIDE DEF bad
    <3> QED
      BY <2>1
  <2>3. AllOf(verdicts) = verdicts[CHOOSE i \in bad : \A j \in bad : i <= j]
    BY <1>2 DEF AllOf
  <2> QED
    BY <2>2, <2>3
<1> QED
  BY <1>1, <1>2

\* What "yes" of a key says.
LEMMA AnyMeans ==
  ASSUME NEW key, NEW message, NEW signature
  PROVE  verifyAny(key, message, signature) = "yes" <=> key.curve # "Keyless" /\ signature = Signature(key, message)
BY DEF verifyAny, Verdict

\* The accounts with one key.
LEMMA SingleVerdict ==
  ASSUME NEW p, IsAccount(p), p.class \in {"Ed25519Account", "SingleKeyAccount", "KeylessAccount"},
         NEW message, NEW parts, DOMAIN parts = {1}, NEW expired \in BOOLEAN
  PROVE  verifySignature(p, message, [class |-> p.signature, at |-> parts], expired) = "yes"
           <=> CanTell(p, expired) /\ parts[1] = Signature(p.publicKey.keys[1], message)
<1> DEFINE signature == [class |-> p.signature, at |-> parts]
           key == p.publicKey.keys[1]
<1>1. signature.class = p.signature /\ signature.at = parts
  OBVIOUS
<1>2. <<p.class, p.publicKey.class, p.signature, p.authenticator>> \in Classes /\ p.bits = {1}
  BY DEF IsAccount
<1> HIDE DEF signature
<1>3. CASE p.class = "Ed25519Account"
  <2>1. p.signature = "Ed25519Signature"
    BY <1>2, <1>3 DEF Classes
  <2>2. verifyEd25519(p, message, signature) = "yes" <=> parts[1] = Signature(key, message)
    BY <1>1, <2>1 DEF verifyEd25519, Verdict
  <2> QED
    BY <1>3, <2>2 DEF verifySignature, CanTell, signature
<1>4. CASE p.class = "SingleKeyAccount"
  <2>1. p.signature = "AnySignature"
    BY <1>2, <1>4 DEF Classes
  <2>2. verifySingleKey(p, message, signature) = verifyAny(key, message, parts[1])
    BY <1>1, <2>1 DEF verifySingleKey
  <2>3. CanTell(p, expired) <=> key.curve # "Keyless"
    BY <1>2, <1>4 DEF CanTell, KeysAt
  <2> QED
    BY <1>4, <2>2, <2>3, AnyMeans DEF verifySignature, signature
<1>5. CASE p.class = "KeylessAccount"
  <2>1. verifyKeyless(p, message, signature, expired) = "yes" <=> ~expired /\ parts[1] = Signature(key, message)
    BY <1>1 DEF verifyKeyless, Verdict
  <2> QED
    BY <1>5, <2>1 DEF verifySignature, CanTell, signature
<1> QED
  BY <1>3, <1>4, <1>5

\* The account of several keys: "yes" gives every part an owner of the same rank.
LEMMA MultiKeyVerdict ==
  ASSUME NEW p, IsAccount(p), p.class = "MultiKeyAccount",
         NEW message, NEW parts, DOMAIN parts \subseteq DOMAIN p.publicKey.keys, NEW expired \in BOOLEAN
  PROVE  LET verdict == verifySignature(p, message, [class |-> p.signature, at |-> parts], expired)
         IN  /\ verdict = "yes" =>
                  \A i \in DOMAIN parts : \E k \in p.bits :
                    /\ Rank(p.bits, k) = Rank(DOMAIN parts, i)
                    /\ parts[i] = Signature(p.publicKey.keys[k], message)
             /\ DOMAIN parts = p.bits =>
                  (verdict = "yes" <=>
                     \A i \in p.bits : /\ p.publicKey.keys[i].curve # "Keyless"
                                       /\ parts[i] = Signature(p.publicKey.keys[i], message))
<1> DEFINE given == DOMAIN parts
           owner(i) == CHOOSE k \in p.bits : Rank(p.bits, k) = Rank(given, i)
           verdictOf(i) == IF Rank(given, i) > Cardinality(p.bits) THEN "throws"
                           ELSE verifyAny(p.publicKey.keys[owner(i)], message, parts[i])
           verdicts == [i \in given |-> verdictOf(i)]
           verdict == verifySignature(p, message, [class |-> p.signature, at |-> parts], expired)
<1>0. /\ IsFiniteSet(p.bits) /\ p.bits \subseteq Nat
      /\ IsFiniteSet(given) /\ given \subseteq Nat
  <2>1. p.bits \subseteq 1 .. Len(p.publicKey.keys) /\ given \subseteq 1 .. Len(p.publicKey.keys)
        /\ Len(p.publicKey.keys) \in Nat
    BY DEF IsAccount
  <2>2. IsFiniteSet(1 .. Len(p.publicKey.keys))
    BY <2>1, UpTo
  <2> QED
    BY <2>1, <2>2, FS_Subset
<1>1. verdict = AllOf(verdicts)
  BY DEF verifySignature, verifyMultiKey
<1>2. DOMAIN verdicts = given /\ \A i \in given : verdicts[i] = verdictOf(i)
  OBVIOUS
<1>3. verdict = "yes" <=> \A i \in given : verdictOf(i) = "yes"
  <2> HIDE DEF verdicts, verdictOf, given, verdict
  <2> QED
    BY <1>0, <1>1, <1>2, AllOfMeans
<1>4. ASSUME verdict = "yes", NEW i \in given
      PROVE  \E k \in p.bits : Rank(p.bits, k) = Rank(given, i) /\ parts[i] = Signature(p.publicKey.keys[k], message)
  <2>1. ~(Rank(given, i) > Cardinality(p.bits)) /\ verifyAny(p.publicKey.keys[owner(i)], message, parts[i]) = "yes"
    BY <1>3, <1>4
  <2>2. Rank(given, i) \in Nat /\ 1 <= Rank(given, i)
    BY <1>0, RankIsPositive
  <2>3. owner(i) \in p.bits /\ Rank(p.bits, owner(i)) = Rank(given, i)
    <3>1. \E k \in p.bits : Rank(p.bits, k) = Rank(given, i)
      <4> HIDE DEF given
      <4> QED
        BY <1>0, <2>1, <2>2, RankIsOnto
    <3> QED
      BY <3>1
  <2> HIDE DEF owner
  <2> QED
    BY <2>1, <2>3, AnyMeans
<1>5. ASSUME given = p.bits, NEW i \in given
      PROVE  verdictOf(i) = verifyAny(p.publicKey.keys[i], message, parts[i])
  <2>1. ~(Rank(given, i) > Cardinality(p.bits)) /\ \A k \in p.bits : Rank(p.bits, k) = Rank(given, i) => k = i
    BY <1>0, <1>5, RankFacts
  <2>2. owner(i) = i
    BY <1>5, <2>1
  <2> HIDE DEF owner
  <2> QED
    BY <2>1, <2>2
<1>6. given = p.bits =>
        (verdict = "yes" <=> \A i \in p.bits : /\ p.publicKey.keys[i].curve # "Keyless"
                                               /\ parts[i] = Signature(p.publicKey.keys[i], message))
  <2> HIDE DEF verdict, verdictOf
  <2> QED
    BY <1>3, <1>5, AnyMeans
<1> HIDE DEF verdict
<1> QED
  BY <1>4, <1>6 DEF verdict

LEMMA MultiAuthKeyVerdict ==
  ASSUME NEW p, IsAccount(p), p.class = "MultiAuthKeyAccount",
         NEW message, NEW parts, NEW expired \in BOOLEAN
  PROVE  verifySignature(p, message, [class |-> p.signature, at |-> parts], expired) = "yes" <=>
           /\ DOMAIN parts = p.bits
           /\ \A i \in p.bits : /\ p.publicKey.keys[i].curve # "Keyless"
                                /\ parts[i] = Signature(p.publicKey.keys[i], message)
<1> DEFINE verdicts == [i \in DOMAIN parts |-> verifyAny(p.publicKey.keys[i], message, parts[i])]
           verdict == verifySignature(p, message, [class |-> p.signature, at |-> parts], expired)
<1>1. p.bits = DOMAIN p.publicKey.keys /\ p.bits \subseteq Nat
  BY DEF IsAccount
<1>2. verdict = IF DOMAIN parts # p.bits THEN "no" ELSE AllOf(verdicts)
  BY <1>1 DEF verifySignature, verifyMultiAuthKey
<1>3. /\ DOMAIN verdicts = DOMAIN parts
      /\ \A i \in DOMAIN parts : verdicts[i] = verifyAny(p.publicKey.keys[i], message, parts[i])
  OBVIOUS
<1> HIDE DEF verdicts, verdict
<1>4. DOMAIN parts = p.bits => (AllOf(verdicts) = "yes" <=> \A i \in p.bits : verdicts[i] = "yes")
  BY <1>1, <1>3, AllOfMeans
<1>5. verdict = "yes" <=> /\ DOMAIN parts = p.bits
                          /\ \A i \in p.bits : /\ p.publicKey.keys[i].curve # "Keyless"
                                               /\ parts[i] = Signature(p.publicKey.keys[i], message)
  BY <1>2, <1>3, <1>4, AnyMeans
<1> QED
  BY <1>5 DEF verdict

\* Account.verifySignature, for any accounts, thresholds, messages and signatures put
\* together from those of the accounts' keys: every part that an account calls valid is
\* by one of its own signers over that message, no two of a multi-key by the same one,
\* and with the bitmap of its own signers it says what the node would say, but for an
\* expired keyless account and one with a keyless signer.
THEOREM VerdictsAreRightHolds == SigningSpec => []VerdictsAreRight
<1>1. VerdictsAreRight
  <2> SUFFICES ASSUME NEW f \in People, NEW p \in People, NEW expired \in BOOLEAN,
                      NEW message \in Messages(f), NEW parts \in PutTogether(p, MadeOver(Messages(f)))
               PROVE  LET verdict == verifySignature(p, message, [class |-> p.signature, at |-> parts], expired)
                      IN  /\ verdict = "yes" =>
                               /\ \A i \in DOMAIN parts : parts[i].over = message /\ parts[i].key \in KeysAt(p, p.bits)
                               /\ p.class = "MultiKeyAccount" => \A i, j \in DOMAIN parts : parts[i] = parts[j] => i = j
                          /\ DOMAIN parts = p.bits =>
                               (verdict = "yes" <=>
                                  /\ CanTell(p, expired)
                                  /\ Signs(Authenticator(p.authenticator, p.publicKey, parts), {message}))
    BY DEF VerdictsAreRight
  <2> DEFINE verdict == verifySignature(p, message, [class |-> p.signature, at |-> parts], expired)
             keys == p.publicKey.keys
  <2>1. IsAccount(p)
    BY SigningAssumption DEF SigningAssumption
  <2>2. \A key : Signature(key, message).over = message /\ Signature(key, message).key = key
    BY DEF Signature
  <2>3. Signs(Authenticator(p.authenticator, p.publicKey, parts), {message})
          <=> \A i \in DOMAIN parts : parts[i] = Signature(keys[i], message)
    <3>1. /\ Authenticator(p.authenticator, p.publicKey, parts).signatures = parts
          /\ Authenticator(p.authenticator, p.publicKey, parts).publicKey = p.publicKey
      BY DEF Authenticator
    <3> QED
      BY <3>1 DEF Signs
  <2>4. CASE p.class \in {"Ed25519Account", "SingleKeyAccount", "KeylessAccount"}
    <3>1. DOMAIN parts = {1} /\ p.bits = {1}
      BY <2>1, <2>4 DEF PutTogether, IsAccount
    <3>2. verdict = "yes" <=> CanTell(p, expired) /\ parts[1] = Signature(keys[1], message)
      BY <2>1, <2>4, <3>1, SingleVerdict
    <3>3. keys[1] \in KeysAt(p, p.bits)
      BY <3>1 DEF KeysAt
    <3> HIDE DEF verdict, keys
    <3> QED
      BY <2>2, <2>3, <2>4, <3>1, <3>2, <3>3 DEF verdict
  <2>5. CASE p.class = "MultiKeyAccount"
    <3>1. DOMAIN parts \subseteq DOMAIN keys
      BY <2>5 DEF PutTogether
    <3>2. verdict = "yes" =>
            \A i \in DOMAIN parts : \E k \in p.bits :
              Rank(p.bits, k) = Rank(DOMAIN parts, i) /\ parts[i] = Signature(keys[k], message)
      BY <2>1, <2>5, <3>1, MultiKeyVerdict
    <3>3. DOMAIN parts = p.bits =>
            (verdict = "yes" <=>
               \A i \in p.bits : keys[i].curve # "Keyless" /\ parts[i] = Signature(keys[i], message))
      BY <2>1, <2>5, <3>1, MultiKeyVerdict
    <3>4. \A k \in p.bits : keys[k] \in KeysAt(p, p.bits)
      BY DEF KeysAt
    <3>5. CanTell(p, expired) <=> \A k \in p.bits : keys[k].curve # "Keyless"
      BY <2>5 DEF CanTell, KeysAt
    <3>6. ASSUME verdict = "yes", NEW i \in DOMAIN parts, NEW j \in DOMAIN parts, parts[i] = parts[j]
          PROVE  i = j
      <4>1. PICK k \in p.bits : Rank(p.bits, k) = Rank(DOMAIN parts, i) /\ parts[i] = Signature(keys[k], message)
        BY <3>2, <3>6
      <4>2. PICK m \in p.bits : Rank(p.bits, m) = Rank(DOMAIN parts, j) /\ parts[j] = Signature(keys[m], message)
        BY <3>2, <3>6
      <4>3. k = m
        <5>1. keys[k] = keys[m]
          <6> HIDE DEF keys
          <6> QED
            BY <2>2, <3>6, <4>1, <4>2
        <5> QED
          BY <2>1, <2>5, <5>1 DEF IsAccount
      <4>4. IsFiniteSet(DOMAIN parts) /\ DOMAIN parts \subseteq Nat
        <5>1. DOMAIN parts \subseteq 1 .. Len(keys) /\ Len(keys) \in Nat
          BY <2>1, <3>1 DEF IsAccount
        <5>2. IsFiniteSet(1 .. Len(keys))
          BY <5>1, UpTo
        <5> QED
          BY <5>1, <5>2, FS_Subset
      <4> QED
        BY <3>6, <4>1, <4>2, <4>3, <4>4, RankFacts
    <3> HIDE DEF verdict, keys
    <3>7. verdict = "yes" => \A i \in DOMAIN parts : parts[i].over = message /\ parts[i].key \in KeysAt(p, p.bits)
      BY <2>2, <3>2, <3>4
    <3>8. DOMAIN parts = p.bits =>
            (verdict = "yes" <=>
               CanTell(p, expired) /\ Signs(Authenticator(p.authenticator, p.publicKey, parts), {message}))
      BY <2>3, <3>3, <3>5
    <3> QED
      BY <3>6, <3>7, <3>8 DEF verdict
  <2>6. CASE p.class = "MultiAuthKeyAccount"
    <3>1. verdict = "yes" <=>
            /\ DOMAIN parts = p.bits
            /\ \A i \in p.bits : keys[i].curve # "Keyless" /\ parts[i] = Signature(keys[i], message)
      BY <2>1, <2>6, MultiAuthKeyVerdict
    <3>2. \A k \in p.bits : keys[k] \in KeysAt(p, p.bits)
      BY DEF KeysAt
    <3>3. CanTell(p, expired) <=> \A k \in p.bits : keys[k].curve # "Keyless"
      BY <2>6 DEF CanTell, KeysAt
    <3> HIDE DEF verdict, keys
    <3> QED
      BY <2>2, <2>3, <2>6, <3>1, <3>2, <3>3 DEF verdict
  <2> QED
    BY <2>1, <2>4, <2>5, <2>6 DEF IsAccount, Classes
<1> QED
  BY <1>1, PTL

-----------------------------------------------------------------------------
(***************************************************************************)
(* SignAndSubmit.  FetchShape says who awaits the promise of a proof and   *)
(* in which order; WaitingShape carries it to the calls.                   *)
(***************************************************************************)
USE CallsAssumption, NullAssumption

Awaiter == Calls \cup {"init", "derive"}

\* The tail of a sequence that is not empty.
LEMMA TailFacts ==
  ASSUME NEW S, NEW s \in Seq(S), s # <<>>
  PROVE  /\ Tail(s) \in Seq(S)
         /\ Len(s) \in Nat \ {0}
         /\ Len(Tail(s)) = Len(s) - 1
         /\ \A i \in 1 .. Len(Tail(s)) : Tail(s)[i] = s[i + 1]
         /\ Head(s) = s[1]
OBVIOUS

\* A sequence with one more element.
LEMMA AppendFacts ==
  ASSUME NEW S, NEW s \in Seq(S), NEW x \in S
  PROVE  /\ Append(s, x) \in Seq(S)
         /\ Len(Append(s, x)) = Len(s) + 1
         /\ \A i \in 1 .. Len(s) : Append(s, x)[i] = s[i]
         /\ Append(s, x)[Len(s) + 1] = x
         /\ Append(s, x) # <<>>
OBVIOUS

\* The histories of one status.
LEMMA StatusFacts ==
  /\ Append(<<>>, "Success") = <<"Success">>
  /\ Append(<<>>, "Failed") = <<"Failed">>
  /\ <<"Success">> # <<"Failed">> /\ <<"Success">> # <<>> /\ <<"Failed">> # <<>>
  /\ Len(<<>>) = 0 /\ Len(<<"Success">>) = 1 /\ Len(<<"Failed">>) = 1
OBVIOUS

\* What the callback is told follows from the shape of the fetch.
LEMMA ShapeTellsTheTruth ==
  ASSUME AccountTypeOK, FetchShape
  PROVE  CallbackIsToldTheTruth
<1> SUFFICES ASSUME NEW k \in Signers
             PROVE  /\ Len(told[k]) <= 1
                    /\ told[k] = <<"Success">> <=> proofOrPromise[k] = "promise" /\ proof[k]
                    /\ told[k] = <<"Failed">> => promise[k] = "rejected" /\ ~proof[k]
  BY DEF CallbackIsToldTheTruth
<1>1. CASE proofOrPromise[k] = "promise"
  <2>1. BackgroundFetch(k) /\ promise[k] \in {"pending", "fulfilled", "rejected"}
    BY <1>1 DEF FetchShape, FetchShapeOf, BackgroundFetch, AccountTypeOK
  <2>2. CASE InitPending(k)
    BY <1>1, <2>1, <2>2, StatusFacts DEF BackgroundFetch
  <2>3. CASE ~InitPending(k) /\ promise[k] = "fulfilled"
    <3>1. proof[k]
      BY <2>1, <2>3 DEF BackgroundFetch
    <3>2. told[k] = <<"Success">>
      BY <2>1, <2>3 DEF BackgroundFetch
    <3>3. told[k] # <<"Failed">> /\ Len(told[k]) = 1
      BY <3>2, StatusFacts
    <3> QED BY <1>1, <3>1, <3>2, <3>3
  <2>4. CASE ~InitPending(k) /\ promise[k] = "rejected"
    <3>1. ~proof[k]
      BY <2>1, <2>4 DEF BackgroundFetch
    <3>2. told[k] = <<"Failed">>
      BY <2>1, <2>4 DEF BackgroundFetch
    <3>3. told[k] # <<"Success">> /\ Len(told[k]) = 1
      BY <3>2, StatusFacts
    <3> QED BY <2>4, <3>1, <3>2, <3>3
  <2> QED BY <2>1, <2>2, <2>3, <2>4 DEF BackgroundFetch
<1>2. CASE proofOrPromise[k] # "promise"
  BY <1>2, StatusFacts DEF FetchShape, FetchShapeOf, AwaitedFetch
<1> QED BY <1>1, <1>2

\* A step that leaves a signer alone keeps the shape of its fetch.
LEMMA ShapeFrame ==
  ASSUME NEW k \in Signers, FetchShapeOf(k),
         fetch'[k] = fetch[k], promise'[k] = promise[k], account'[k] = account[k],
         reactions'[k] = reactions[k], proofOrPromise'[k] = proofOrPromise[k],
         proof'[k] = proof[k], told'[k] = told[k]
  PROVE  FetchShapeOf(k)'
BY DEF FetchShapeOf, BackgroundFetch, AwaitedFetch, InitPending

\* A proof stays there, so calls go on to wait as they did.
LEMMA WaitingFrame ==
  ASSUME WaitingShape, UNCHANGED callVars,
         \A k \in Signers : proof[k] => proof'[k]
  PROVE  WaitingShape'
<1> SUFFICES ASSUME NEW c \in Calls
             PROVE  /\ at'[c] = "done" \/ outcome'[c] = Null
                    /\ at'[c] = "waiting" =>
                          /\ kind'[c] \in Awaited
                          /\ \A k \in Keyless(signers'[c]) : k \in unproven'[c] \/ proof'[k]
  BY DEF WaitingShape, Keyless
<1>1. /\ at'[c] = at[c] /\ kind'[c] = kind[c] /\ signers'[c] = signers[c]
      /\ unproven'[c] = unproven[c] /\ outcome'[c] = outcome[c]
  BY DEF callVars
<1>2. Keyless(signers[c]) \subseteq Signers
  BY DEF Keyless
<1> QED BY <1>1, <1>2 DEF WaitingShape

\* The initial states satisfy the inductive invariant.
LEMMA InitIInv == Init => IInv
<1> SUFFICES ASSUME Init PROVE IInv
  OBVIOUS
<1>1. AccountTypeOK
  BY DEF Init, AccountInit, AccountTypeOK
<1>2. CallTypeOK
  BY DEF Init, CallTypeOK, Kinds
<1>3. FetchShape
  BY DEF Init, AccountInit, FetchShape, FetchShapeOf, AwaitedFetch
<1>4. WaitingShape
  BY DEF Init, WaitingShape
<1>5. WaitedProofIsThere
  BY DEF Init, WaitedProofIsThere, Outcomes, SignErrors
<1> QED BY <1>1, <1>2, <1>3, <1>4, <1>5, ShapeTellsTheTruth DEF IInv

\* A step of one signer keeps the invariant if it keeps the types and the
\* shape of that signer's fetch, and does not take its proof away.
LEMMA SignerStep ==
  ASSUME IInv, UNCHANGED callVars, AccountTypeOK', NEW k \in Signers,
         FetchShapeOf(k)',
         \A j \in Signers \ {k} :
            /\ fetch'[j] = fetch[j] /\ promise'[j] = promise[j] /\ account'[j] = account[j]
            /\ reactions'[j] = reactions[j] /\ proofOrPromise'[j] = proofOrPromise[j]
            /\ proof'[j] = proof[j] /\ told'[j] = told[j],
         proof[k] => proof'[k]
  PROVE  IInv'
<1>1. CallTypeOK'
  BY DEF IInv, CallTypeOK, callVars
<1>2. FetchShape'
  <2> SUFFICES ASSUME NEW j \in Signers, j # k PROVE FetchShapeOf(j)'
    BY DEF FetchShape
  <2> QED BY ShapeFrame DEF IInv, FetchShape
<1>3. WaitingShape'
  BY WaitingFrame DEF IInv
<1>4. WaitedProofIsThere'
  BY DEF IInv, WaitedProofIsThere, callVars
<1>5. CallbackIsToldTheTruth'
  <2>1. AccountTypeOK' /\ FetchShape'
    BY <1>2
  <2> QED BY <2>1, ShapeTellsTheTruth, PTL
<1> QED BY <1>1, <1>2, <1>3, <1>4, <1>5 DEF IInv

\* The reactions of a signer after the first one has run.
LEMMA ReactionFacts ==
  ASSUME AccountTypeOK, NEW k \in Signers, NEW who, NextReaction(k, who)
  PROVE  /\ reactions' \in [Signers -> Seq(Awaiter)]
         /\ \A j \in Signers \ {k} : reactions'[j] = reactions[j]
         /\ reactions[k][1] = who
         /\ Len(reactions'[k]) \in Nat
         /\ \A i \in 1 .. Len(reactions'[k]) :
               i + 1 \in 1 .. Len(reactions[k]) /\ reactions'[k][i] = reactions[k][i + 1]
<1>1. reactions[k] \in Seq(Awaiter) /\ reactions[k] # <<>>
  BY DEF AccountTypeOK, Awaiter, NextReaction
<1>2. reactions'[k] = Tail(reactions[k]) /\ reactions[k][1] = who
  BY <1>1, TailFacts DEF NextReaction, AccountTypeOK
<1>3. /\ Tail(reactions[k]) \in Seq(Awaiter)
      /\ Len(reactions[k]) \in Nat \ {0}
      /\ Len(Tail(reactions[k])) = Len(reactions[k]) - 1
      /\ \A i \in 1 .. Len(Tail(reactions[k])) : Tail(reactions[k])[i] = reactions[k][i + 1]
  BY <1>1, TailFacts
<1>4. reactions' \in [Signers -> Seq(Awaiter)]
  BY <1>2, <1>3 DEF NextReaction, AccountTypeOK, Awaiter
<1> QED BY <1>2, <1>3, <1>4 DEF NextReaction, AccountTypeOK

\* The steps of a keyless account.

LEMMA deriveStep ==
  ASSUME IInv, UNCHANGED callVars, NEW k \in Signers, NEW expiry \in Expiries,
         NEW withCallback \in BOOLEAN, NEW configured \in BOOLEAN,
         deriveKeylessAccount(k, expiry, withCallback, configured)
  PROVE  IInv'
<1>1. AccountTypeOK /\ FetchShapeOf(k) /\ account[k] = "none"
  BY DEF IInv, FetchShape, deriveKeylessAccount
<1>2. proofOrPromise[k] # "promise" /\ AwaitedFetch(k) /\ ~proof[k] /\ told[k] = <<>>
  BY <1>1 DEF FetchShapeOf, BackgroundFetch, AwaitedFetch, AccountTypeOK
<1>3. /\ fetch' \in [Signers -> {"none", "config", "prove", "settled"}]
      /\ promise' \in [Signers -> {"none", "pending", "fulfilled", "rejected"}]
      /\ promise'[k] \in {"pending", "rejected"}
      /\ fetch'[k] \in {"config", "prove"} <=> promise'[k] = "pending"
      /\ \A j \in Signers \ {k} : fetch'[j] = fetch[j] /\ promise'[j] = promise[j]
  BY <1>1 DEF deriveKeylessAccount, RequestProof, Fetch, AccountTypeOK
<1>4. /\ <<"init">> \in Seq(Awaiter) /\ <<"derive">> \in Seq(Awaiter)
      /\ <<"init">> # <<>> /\ Len(<<"init">>) = 1 /\ <<"init">>[1] = "init"
  BY DEF Awaiter
<1>5. CASE withCallback
  <2>1. /\ account' = [account EXCEPT ![k] = "ready"]
        /\ proofOrPromise' = [proofOrPromise EXCEPT ![k] = "promise"]
        /\ reactions' = [reactions EXCEPT ![k] = <<"init">>]
        /\ expiryDateSecs' = [expiryDateSecs EXCEPT ![k] = expiry]
        /\ UNCHANGED <<proof, told, clock>>
    BY <1>5 DEF deriveKeylessAccount
  <2>2. AccountTypeOK'
    BY <1>1, <1>3, <1>4, <2>1, TimesAssumption DEF AccountTypeOK, Awaiter
  <2>3. /\ account'[k] = "ready" /\ proofOrPromise'[k] = "promise"
        /\ reactions'[k] = <<"init">> /\ ~proof'[k] /\ told'[k] = <<>>
    BY <1>1, <1>2, <2>1 DEF AccountTypeOK
  <2>4. InitPending(k)'
    BY <1>4, <2>3 DEF InitPending
  <2>5. BackgroundFetch(k)'
    BY <1>3, <1>4, <2>3, <2>4 DEF BackgroundFetch
  <2>6. FetchShapeOf(k)'
    BY <1>3, <2>3, <2>5 DEF FetchShapeOf
  <2> QED BY <1>1, <1>2, <1>3, <2>1, <2>2, <2>6, SignerStep DEF AccountTypeOK
<1>6. CASE ~withCallback
  <2>1. /\ account' = [account EXCEPT ![k] = "deriving"]
        /\ reactions' = [reactions EXCEPT ![k] = <<"derive">>]
        /\ expiryDateSecs' = [expiryDateSecs EXCEPT ![k] = expiry]
        /\ UNCHANGED <<proofOrPromise, proof, told, clock>>
    BY <1>6 DEF deriveKeylessAccount
  <2>2. AccountTypeOK'
    BY <1>1, <1>3, <1>4, <2>1, TimesAssumption DEF AccountTypeOK, Awaiter
  <2>3. /\ account'[k] = "deriving" /\ proofOrPromise'[k] = proofOrPromise[k]
        /\ reactions'[k] = <<"derive">> /\ proof'[k] = proof[k] /\ told'[k] = <<>>
    BY <1>1, <1>2, <2>1 DEF AccountTypeOK
  <2>4. AwaitedFetch(k)'
    BY <1>2, <2>3 DEF AwaitedFetch
  <2>5. FetchShapeOf(k)'
    BY <1>2, <1>3, <2>3, <2>4 DEF FetchShapeOf
  <2> QED BY <1>1, <1>2, <1>3, <2>1, <2>2, <2>5, SignerStep DEF AccountTypeOK
<1> QED BY <1>5, <1>6

LEMMA FetchStep ==
  ASSUME IInv, UNCHANGED callVars, NEW k \in Signers, ConfigArrives(k) \/ ProofArrives(k)
  PROVE  IInv'
<1>1. AccountTypeOK /\ FetchShapeOf(k) /\ fetch[k] \in {"config", "prove"}
  BY DEF IInv, FetchShape, ConfigArrives, ProofArrives
<1>2. promise[k] = "pending"
  BY <1>1 DEF FetchShapeOf
<1>3. /\ fetch' \in [Signers -> {"none", "config", "prove", "settled"}]
      /\ promise' \in [Signers -> {"none", "pending", "fulfilled", "rejected"}]
      /\ promise'[k] \in {"pending", "fulfilled", "rejected"}
      /\ fetch'[k] \in {"config", "prove"} <=> promise'[k] = "pending"
      /\ \A j \in Signers \ {k} : fetch'[j] = fetch[j] /\ promise'[j] = promise[j]
  BY <1>1 DEF ConfigArrives, ProofArrives, RequestProof, Fetch, AccountTypeOK
<1>4. UNCHANGED unchangedByFetch
  BY DEF ConfigArrives, ProofArrives
<1>5. AccountTypeOK'
  BY <1>1, <1>3, <1>4 DEF AccountTypeOK, unchangedByFetch
<1>6. FetchShapeOf(k)'
  <2>1. CASE proofOrPromise[k] = "promise"
    <3>1. BackgroundFetch(k) /\ InitPending(k)
      BY <1>1, <1>2, <2>1 DEF FetchShapeOf, BackgroundFetch
    <3>2. BackgroundFetch(k)'
      BY <1>3, <1>4, <3>1 DEF BackgroundFetch, InitPending, unchangedByFetch
    <3> QED BY <1>1, <1>3, <1>4, <2>1, <3>2 DEF FetchShapeOf, unchangedByFetch
  <2>2. CASE proofOrPromise[k] # "promise"
    BY <1>1, <1>3, <1>4, <2>2 DEF FetchShapeOf, AwaitedFetch, unchangedByFetch
  <2> QED BY <2>1, <2>2
<1> QED BY <1>3, <1>4, <1>5, <1>6, SignerStep DEF unchangedByFetch

LEMMA initStep ==
  ASSUME IInv, UNCHANGED callVars, NEW k \in Signers, init(k)
  PROVE  IInv'
<1>1. /\ AccountTypeOK /\ FetchShapeOf(k) /\ NextReaction(k, "init")
      /\ promise[k] \in {"fulfilled", "rejected"} /\ reactions[k] # <<>>
  BY DEF IInv, FetchShape, init, NextReaction
<1>2. /\ reactions' \in [Signers -> Seq(Awaiter)]
      /\ \A j \in Signers \ {k} : reactions'[j] = reactions[j]
      /\ reactions[k][1] = "init"
      /\ \A i \in 1 .. Len(reactions'[k]) :
            i + 1 \in 1 .. Len(reactions[k]) /\ reactions'[k][i] = reactions[k][i + 1]
      /\ Len(reactions'[k]) \in Nat
  BY <1>1, ReactionFacts
<1>3. proofOrPromise[k] = "promise" /\ BackgroundFetch(k) /\ InitPending(k)
  <2>1. <<"derive">>[1] # "init"
    OBVIOUS
  <2> QED BY <1>1, <1>2, <2>1 DEF FetchShapeOf, AwaitedFetch, InitPending
<1>4. /\ proof' = [proof EXCEPT ![k] = promise[k] = "fulfilled"]
      /\ told' = [told EXCEPT ![k] = Append(@, IF promise[k] = "fulfilled" THEN "Success" ELSE "Failed")]
      /\ UNCHANGED <<account, expiryDateSecs, fetch, promise, proofOrPromise, clock>>
      /\ told[k] = <<>> /\ ~proof[k]
  BY <1>3 DEF init, BackgroundFetch
<1>5. /\ proof'[k] <=> promise[k] = "fulfilled"
      /\ promise[k] = "fulfilled" => told'[k] = <<"Success">>
      /\ promise[k] = "rejected" => told'[k] = <<"Failed">>
  BY <1>1, <1>4, StatusFacts DEF AccountTypeOK
<1>6. AccountTypeOK'
  <2>1. told' \in [Signers -> Seq({"Success", "Failed"})]
    <3>1. told[k] \in Seq({"Success", "Failed"})
      BY <1>1 DEF AccountTypeOK
    <3>2. /\ Append(told[k], "Success") \in Seq({"Success", "Failed"})
          /\ Append(told[k], "Failed") \in Seq({"Success", "Failed"})
      BY <3>1, AppendFacts
    <3> QED BY <1>1, <1>4, <3>2 DEF AccountTypeOK
  <2>2. proof' \in [Signers -> BOOLEAN]
    BY <1>1, <1>4 DEF AccountTypeOK
  <2> QED BY <1>1, <1>2, <1>4, <2>1, <2>2 DEF AccountTypeOK, Awaiter
<1>7. ~InitPending(k)'
  <2>1. reactions'[k] # <<>> => 1 \in 1 .. Len(reactions'[k])
    BY <1>2
  <2>2. 1 \in 1 .. Len(reactions'[k]) => reactions'[k][1] \in Calls
    BY <1>2, <1>3 DEF BackgroundFetch
  <2> QED BY <2>1, <2>2 DEF InitPending
<1>8. \A i \in 1 .. Len(reactions'[k]) : reactions'[k][i] \in Calls
  BY <1>2, <1>3 DEF BackgroundFetch
<1>9. BackgroundFetch(k)'
  BY <1>1, <1>3, <1>4, <1>5, <1>7, <1>8 DEF BackgroundFetch
<1>10. FetchShapeOf(k)'
  BY <1>1, <1>3, <1>4, <1>9 DEF FetchShapeOf, BackgroundFetch
<1> QED BY <1>1, <1>2, <1>4, <1>6, <1>10, SignerStep DEF AccountTypeOK

LEMMA DerivedStep ==
  ASSUME IInv, UNCHANGED callVars, NEW k \in Signers, Derived(k)
  PROVE  IInv'
<1>1. /\ AccountTypeOK /\ FetchShapeOf(k) /\ NextReaction(k, "derive")
      /\ promise[k] \in {"fulfilled", "rejected"} /\ reactions[k] # <<>>
      /\ UNCHANGED <<expiryDateSecs, fetch, promise, told, clock>>
  BY DEF IInv, FetchShape, Derived, NextReaction
<1>2. /\ reactions' \in [Signers -> Seq(Awaiter)]
      /\ \A j \in Signers \ {k} : reactions'[j] = reactions[j]
      /\ reactions[k][1] = "derive"
      /\ Len(reactions[k]) \in Nat \ {0}
      /\ reactions'[k] = Tail(reactions[k])
  <2>1. reactions[k] \in Seq(Awaiter)
    BY <1>1 DEF AccountTypeOK, Awaiter
  <2>2. reactions'[k] = Tail(reactions[k])
    BY <1>1 DEF NextReaction, AccountTypeOK
  <2> QED BY <1>1, <2>1, <2>2, ReactionFacts, TailFacts
<1>3. proofOrPromise[k] # "promise" /\ AwaitedFetch(k)
  <2>1. ASSUME proofOrPromise[k] = "promise" PROVE FALSE
    <3>1. BackgroundFetch(k) /\ 1 \in 1 .. Len(reactions[k])
      BY <1>1, <1>2, <2>1 DEF FetchShapeOf
    <3> QED BY <1>2, <3>1, CallsAssumption DEF BackgroundFetch
  <2> QED BY <1>1, <2>1 DEF FetchShapeOf
<1>4. /\ reactions'[k] = <<>> /\ account[k] = "deriving" /\ ~proof[k]
      /\ proofOrPromise[k] # "proof" /\ told[k] = <<>>
  <2>1. reactions[k] = <<"derive">>
    BY <1>1, <1>3 DEF AwaitedFetch
  <2>2. Tail(<<"derive">>) = <<>>
    OBVIOUS
  <2> QED BY <1>2, <1>3, <2>1, <2>2 DEF AwaitedFetch
<1>5. CASE promise[k] = "fulfilled"
  <2>1. /\ account' = [account EXCEPT ![k] = "ready"]
        /\ proofOrPromise' = [proofOrPromise EXCEPT ![k] = "proof"]
        /\ proof' = [proof EXCEPT ![k] = TRUE]
    BY <1>5 DEF Derived
  <2>2. AccountTypeOK'
    BY <1>1, <1>2, <2>1 DEF AccountTypeOK, Awaiter
  <2>3. account'[k] = "ready" /\ proofOrPromise'[k] = "proof" /\ proof'[k]
    BY <1>1, <2>1 DEF AccountTypeOK
  <2>4. AwaitedFetch(k)'
    BY <1>1, <1>4, <2>3 DEF AwaitedFetch
  <2>5. FetchShapeOf(k)'
    BY <1>1, <1>4, <2>3, <2>4 DEF FetchShapeOf
  <2> QED BY <1>1, <1>2, <2>1, <2>2, <2>3, <2>5, SignerStep DEF AccountTypeOK
<1>6. CASE promise[k] = "rejected"
  <2>1. account' = [account EXCEPT ![k] = "failed"] /\ UNCHANGED <<proofOrPromise, proof>>
    BY <1>6 DEF Derived
  <2>2. AccountTypeOK'
    BY <1>1, <1>2, <2>1 DEF AccountTypeOK, Awaiter
  <2>3. account'[k] = "failed"
    BY <1>1, <2>1 DEF AccountTypeOK
  <2>4. AwaitedFetch(k)'
    BY <1>1, <1>4, <2>1, <2>3 DEF AwaitedFetch
  <2>5. FetchShapeOf(k)'
    BY <1>1, <1>3, <1>4, <2>1, <2>3, <2>4 DEF FetchShapeOf
  <2> QED BY <1>1, <1>2, <2>1, <2>2, <2>5, SignerStep DEF AccountTypeOK
<1> QED BY <1>1, <1>5, <1>6

LEMMA TickStep ==
  ASSUME IInv, UNCHANGED callVars, Tick
  PROVE  IInv'
<1>1. UNCHANGED <<account, expiryDateSecs, fetch, promise, reactions, proofOrPromise, proof, told>>
  BY DEF Tick
<1>2. AccountTypeOK'
  BY <1>1 DEF IInv, AccountTypeOK, Tick
<1>3. FetchShape'
  BY <1>1, ShapeFrame DEF IInv, FetchShape
<1>4. CallTypeOK' /\ WaitedProofIsThere'
  BY DEF IInv, CallTypeOK, WaitedProofIsThere, callVars
<1>5. WaitingShape'
  BY <1>1, WaitingFrame DEF IInv
<1>6. CallbackIsToldTheTruth'
  BY <1>2, <1>3, ShapeTellsTheTruth, PTL
<1> QED BY <1>2, <1>3, <1>4, <1>5, <1>6 DEF IInv

\* The steps of the calls.

\* Signing keeps the invariant if the signers of a call that was waited for
\* have their proofs.
LEMMA SignFacts ==
  ASSUME CallTypeOK, AccountTypeOK, NEW c \in Calls, NEW how, NEW list, Sign(c, how, list)
  PROVE  /\ at' \in [Calls -> {"idle", "waiting", "posting", "done"}]
         /\ outcome' \in [Calls -> Outcomes \cup {Null}]
         /\ signedAt' \in [Calls -> Nat]
         /\ at'[c] = "done" \/ (at'[c] = "posting" /\ outcome' = outcome)
         /\ \A d \in Calls \ {c} : at'[d] = at[d] /\ outcome'[d] = outcome[d]
         /\ at'[c] = "done" /\ outcome'[c] = "Proof not found" =>
               \E k \in Keyless(list) : ~proof[k]
<1>1. CASE /\ at' = [at EXCEPT ![c] = "posting"]
           /\ signedAt' = [signedAt EXCEPT ![c] = clock]
           /\ UNCHANGED outcome
  BY <1>1 DEF CallTypeOK, AccountTypeOK
<1>2. CASE /\ \E i \in Throwing(list) :
                 End(c, IF ~proof[list[i]] THEN "Proof not found" ELSE "EphemeralKeyPair is expired")
           /\ UNCHANGED signedAt
  <2>1. PICK i \in Throwing(list) :
           End(c, IF ~proof[list[i]] THEN "Proof not found" ELSE "EphemeralKeyPair is expired")
    BY <1>2
  <2>2. list[i] \in Keyless(list)
    BY DEF Throwing, Keyless
  <2>3. CASE ~proof[list[i]]
    BY <1>2, <2>1, <2>2, <2>3 DEF End, CallTypeOK, Outcomes, SignErrors
  <2>4. CASE proof[list[i]]
    BY <1>2, <2>1, <2>4 DEF End, CallTypeOK, Outcomes, SignErrors
  <2> QED BY <2>3, <2>4
<1>3. CASE End(c, "Expecting n signatures") /\ UNCHANGED signedAt
  BY <1>3 DEF End, CallTypeOK, Outcomes, SignErrors
<1> QED BY <1>1, <1>2, <1>3 DEF Sign

LEMMA SignWaitedStep ==
  ASSUME IInv, NEW c \in Calls, SignWaited(c)
  PROVE  IInv'
<1>1. /\ CallTypeOK /\ AccountTypeOK /\ at[c] = "waiting" /\ unproven[c] = {}
      /\ Sign(c, kind[c], signers[c]) /\ UNCHANGED <<kind, signers, unproven>>
      /\ UNCHANGED accountVars
  BY DEF IInv, SignWaited
<1>2. /\ at' \in [Calls -> {"idle", "waiting", "posting", "done"}]
      /\ outcome' \in [Calls -> Outcomes \cup {Null}]
      /\ signedAt' \in [Calls -> Nat]
      /\ at'[c] = "done" \/ (at'[c] = "posting" /\ outcome' = outcome)
      /\ \A d \in Calls \ {c} : at'[d] = at[d] /\ outcome'[d] = outcome[d]
      /\ at'[c] = "done" /\ outcome'[c] = "Proof not found" =>
            \E k \in Keyless(signers[c]) : ~proof[k]
  BY <1>1, SignFacts
<1>3. outcome'[c] # "Proof not found" /\ (at'[c] = "done" \/ outcome'[c] = Null)
  <2>1. outcome[c] = Null /\ \A k \in Keyless(signers[c]) : proof[k]
    BY <1>1 DEF IInv, WaitingShape
  <2>2. Null # "Proof not found"
    BY NullAssumption DEF Outcomes, SignErrors
  <2> QED BY <1>2, <2>1, <2>2
<1>4. AccountTypeOK' /\ FetchShape'
  BY <1>1, ShapeFrame DEF IInv, FetchShape, AccountTypeOK, accountVars
<1>5. CallTypeOK'
  BY <1>1, <1>2 DEF CallTypeOK
<1>6. WaitingShape'
  <2> SUFFICES ASSUME NEW d \in Calls
               PROVE  /\ at'[d] = "done" \/ outcome'[d] = Null
                      /\ at'[d] = "waiting" =>
                            /\ kind'[d] \in Awaited
                            /\ \A k \in Keyless(signers'[d]) : k \in unproven'[d] \/ proof'[k]
    BY DEF WaitingShape, Keyless
  <2>1. CASE d = c
    BY <1>2, <1>3, <2>1
  <2>2. CASE d # c
    BY <1>1, <1>2, <2>2 DEF IInv, WaitingShape, accountVars
  <2> QED BY <2>1, <2>2
<1>7. WaitedProofIsThere'
  BY <1>1, <1>2, <1>3 DEF IInv, WaitedProofIsThere
<1> QED BY <1>4, <1>5, <1>6, <1>7, ShapeTellsTheTruth, PTL DEF IInv

LEMMA PostedStep ==
  ASSUME IInv, NEW c \in Calls, Posted(c)
  PROVE  IInv'
<1>1. /\ CallTypeOK /\ UNCHANGED <<kind, signers, unproven, signedAt>> /\ UNCHANGED accountVars
  BY DEF IInv, Posted
<1>2. PICK how \in {"submitted", "request failed"} : End(c, how)
  BY DEF Posted
<1>3. /\ at' \in [Calls -> {"idle", "waiting", "posting", "done"}]
      /\ outcome' \in [Calls -> Outcomes \cup {Null}]
      /\ at'[c] = "done" /\ outcome'[c] = how /\ how # "Proof not found"
      /\ \A d \in Calls \ {c} : at'[d] = at[d] /\ outcome'[d] = outcome[d]
  BY <1>1, <1>2 DEF End, CallTypeOK, Outcomes
<1>4. AccountTypeOK' /\ FetchShape'
  BY <1>1, ShapeFrame DEF IInv, FetchShape, AccountTypeOK, accountVars
<1>5. CallTypeOK'
  BY <1>1, <1>3 DEF CallTypeOK
<1>6. WaitingShape'
  BY <1>1, <1>3 DEF IInv, WaitingShape, Keyless, accountVars
<1>7. WaitedProofIsThere'
  BY <1>1, <1>3 DEF IInv, WaitedProofIsThere
<1> QED BY <1>4, <1>5, <1>6, <1>7, ShapeTellsTheTruth, PTL DEF IInv

\* A call that a promise resumes comes after init, which has stored the proof.
LEMMA ProofFetchedStep ==
  ASSUME IInv, NEW c \in Calls, NEW k \in Signers, ProofFetched(c, k)
  PROVE  IInv'
<1>1. /\ AccountTypeOK /\ CallTypeOK /\ FetchShapeOf(k) /\ NextReaction(k, c)
      /\ promise[k] \in {"fulfilled", "rejected"} /\ reactions[k] # <<>>
      /\ UNCHANGED unchangedByProof
  BY DEF IInv, FetchShape, ProofFetched, NextReaction
<1>2. /\ reactions' \in [Signers -> Seq(Awaiter)]
      /\ \A j \in Signers \ {k} : reactions'[j] = reactions[j]
      /\ reactions[k][1] = c
      /\ \A i \in 1 .. Len(reactions'[k]) :
            i + 1 \in 1 .. Len(reactions[k]) /\ reactions'[k][i] = reactions[k][i + 1]
      /\ Len(reactions'[k]) \in Nat
  BY <1>1, ReactionFacts
<1>3. c # "init" /\ c # "derive"
  BY CallsAssumption
<1>4. proofOrPromise[k] = "promise" /\ BackgroundFetch(k) /\ ~InitPending(k)
  <2>1. <<"derive">>[1] = "derive"
    OBVIOUS
  <2>2. proofOrPromise[k] = "promise"
    BY <1>1, <1>2, <1>3, <2>1 DEF FetchShapeOf, AwaitedFetch
  <2> QED BY <1>1, <1>2, <1>3, <2>2 DEF FetchShapeOf, InitPending
<1>5. promise[k] = "fulfilled" => proof[k]
  BY <1>4 DEF BackgroundFetch
<1>6. \A i \in 1 .. Len(reactions'[k]) : reactions'[k][i] \in Calls
  BY <1>2, <1>4 DEF BackgroundFetch
<1>7. ~InitPending(k)'
  <2>1. reactions'[k] # <<>> => 1 \in 1 .. Len(reactions'[k])
    BY <1>2
  <2> QED BY <1>6, <2>1, CallsAssumption DEF InitPending
<1>8. BackgroundFetch(k)'
  BY <1>1, <1>4, <1>6, <1>7 DEF BackgroundFetch, unchangedByProof
<1>9. FetchShape'
  <2>1. FetchShapeOf(k)'
    BY <1>1, <1>4, <1>8 DEF FetchShapeOf, BackgroundFetch, unchangedByProof
  <2>2. ASSUME NEW j \in Signers, j # k PROVE FetchShapeOf(j)'
    BY <1>1, <1>2, <2>2, ShapeFrame DEF IInv, FetchShape, unchangedByProof
  <2> QED BY <2>1, <2>2 DEF FetchShape
<1>10. AccountTypeOK'
  BY <1>1, <1>2 DEF AccountTypeOK, unchangedByProof, Awaiter
<1>11. /\ unproven' = [unproven EXCEPT ![c] = @ \ {k}]
       /\ \/ promise[k] = "rejected" /\ at[c] = "waiting" /\ End(c, "fetch failed")
          \/ ~(promise[k] = "rejected" /\ at[c] = "waiting") /\ UNCHANGED <<at, outcome>>
  BY DEF ProofFetched
<1>12. /\ at' \in [Calls -> {"idle", "waiting", "posting", "done"}]
       /\ outcome' \in [Calls -> Outcomes \cup {Null}]
       /\ unproven' \in [Calls -> SUBSET Signers]
       /\ \A d \in Calls \ {c} :
             at'[d] = at[d] /\ outcome'[d] = outcome[d] /\ unproven'[d] = unproven[d]
       /\ unproven'[c] = unproven[c] \ {k}
       /\ \/ at'[c] = "done" /\ outcome'[c] = "fetch failed"
          \/ /\ at'[c] = at[c] /\ outcome'[c] = outcome[c]
             /\ at[c] = "waiting" => promise[k] = "fulfilled"
  BY <1>1, <1>11 DEF End, CallTypeOK, Outcomes
<1>13. CallTypeOK'
  BY <1>1, <1>12 DEF CallTypeOK, unchangedByProof
<1>14. WaitingShape'
  <2> SUFFICES ASSUME NEW d \in Calls
               PROVE  /\ at'[d] = "done" \/ outcome'[d] = Null
                      /\ at'[d] = "waiting" =>
                            /\ kind'[d] \in Awaited
                            /\ \A j \in Keyless(signers'[d]) : j \in unproven'[d] \/ proof'[j]
    BY DEF WaitingShape, Keyless
  <2>1. kind' = kind /\ signers' = signers /\ proof' = proof
    BY <1>1 DEF unchangedByProof
  <2>2. CASE d = c
    BY <1>5, <1>12, <2>1, <2>2 DEF IInv, WaitingShape
  <2>3. CASE d # c
    BY <1>12, <2>1, <2>3 DEF IInv, WaitingShape
  <2> QED BY <2>2, <2>3
<1>15. WaitedProofIsThere'
  BY <1>1, <1>12 DEF IInv, WaitedProofIsThere, unchangedByProof
<1> QED BY <1>9, <1>10, <1>13, <1>14, <1>15, ShapeTellsTheTruth, PTL DEF IInv

\* A call that begins to await a promise comes after init.
LEMMA JoinFetch ==
  ASSUME AccountTypeOK, NEW k \in Signers, FetchShapeOf(k), NEW c \in Calls,
         proofOrPromise[k] = "promise", reactions'[k] = Append(reactions[k], c),
         fetch'[k] = fetch[k], promise'[k] = promise[k], account'[k] = account[k],
         proofOrPromise'[k] = proofOrPromise[k], proof'[k] = proof[k], told'[k] = told[k]
  PROVE  FetchShapeOf(k)'
<1>1. BackgroundFetch(k) /\ reactions[k] \in Seq(Awaiter) /\ c \in Awaiter
  BY DEF FetchShapeOf, AccountTypeOK, Awaiter
<1>2. /\ Len(reactions'[k]) = Len(reactions[k]) + 1
      /\ \A i \in 1 .. Len(reactions[k]) : reactions'[k][i] = reactions[k][i]
      /\ reactions'[k][Len(reactions[k]) + 1] = c
      /\ reactions'[k] # <<>>
      /\ Len(reactions[k]) \in Nat
  BY <1>1, AppendFacts
<1>3. InitPending(k)' <=> InitPending(k)
  <2>1. CASE reactions[k] = <<>>
    BY <1>2, <2>1, CallsAssumption DEF InitPending
  <2>2. CASE reactions[k] # <<>>
    <3>1. 1 \in 1 .. Len(reactions[k])
      BY <1>1, <2>2
    <3> QED BY <1>2, <2>2, <3>1 DEF InitPending
  <2> QED BY <2>1, <2>2
<1>4. \A i \in 1 .. Len(reactions'[k]) :
         reactions'[k][i] \in Calls \/ (i = 1 /\ reactions'[k][i] = "init")
  <2> SUFFICES ASSUME NEW i \in 1 .. Len(reactions'[k])
               PROVE  reactions'[k][i] \in Calls \/ (i = 1 /\ reactions'[k][i] = "init")
    OBVIOUS
  <2>1. CASE i = Len(reactions[k]) + 1
    BY <1>2, <2>1
  <2>2. CASE i # Len(reactions[k]) + 1
    <3>1. i \in 1 .. Len(reactions[k])
      BY <1>2, <2>2
    <3> QED BY <1>1, <1>2, <3>1 DEF BackgroundFetch
  <2> QED BY <2>1, <2>2
<1>5. BackgroundFetch(k)'
  BY <1>1, <1>3, <1>4 DEF BackgroundFetch
<1> QED BY <1>1, <1>5 DEF FetchShapeOf, BackgroundFetch

LEMMA CallStep ==
  ASSUME IInv, NEW c \in Calls, NEW how \in Kinds, NEW given,
         signAndSubmitTransaction(c, how, given)
  PROVE  IInv'
<1> DEFINE list == IF how = "MultiKeyAccount" THEN Sorted(given) ELSE given
<1>1. /\ AccountTypeOK /\ CallTypeOK /\ FetchShape /\ at[c] = "idle"
      /\ \A k \in Keyless(list) : account[k] = "ready"
      /\ kind' = [kind EXCEPT ![c] = how]
      /\ signers' = [signers EXCEPT ![c] = list]
      /\ UNCHANGED <<account, expiryDateSecs, fetch, promise, proofOrPromise, proof, told, clock>>
  BY DEF IInv, signAndSubmitTransaction
<1>2. \/ /\ how \in Awaited
         /\ at' = [at EXCEPT ![c] = "waiting"]
         /\ unproven' = [unproven EXCEPT ![c] = Promises(list)]
         /\ reactions' = [k \in Signers |-> IF k \in Promises(list)
                                            THEN Append(reactions[k], c) ELSE reactions[k]]
         /\ UNCHANGED <<outcome, signedAt>>
      \/ /\ how \notin Awaited
         /\ Sign(c, how, list)
         /\ UNCHANGED <<unproven, reactions>>
  BY DEF signAndSubmitTransaction
<1> HIDE DEF list
<1>3. Keyless(list) \subseteq Signers /\ Promises(list) \subseteq Keyless(list)
  BY DEF Keyless, Promises
<1>4. /\ kind'[c] = how /\ kind' \in [Calls -> Kinds]
      /\ signers'[c] = list /\ DOMAIN signers' = Calls
      /\ \A d \in Calls \ {c} : kind'[d] = kind[d] /\ signers'[d] = signers[d]
  BY <1>1 DEF CallTypeOK
<1>5. outcome[c] = Null /\ Null # "Proof not found"
  BY <1>1, NullAssumption DEF IInv, WaitingShape, Outcomes, SignErrors
<1>6. CASE how \in Awaited
  <2>1. /\ at' = [at EXCEPT ![c] = "waiting"]
        /\ unproven' = [unproven EXCEPT ![c] = Promises(list)]
        /\ reactions' = [k \in Signers |-> IF k \in Promises(list)
                                           THEN Append(reactions[k], c) ELSE reactions[k]]
        /\ UNCHANGED <<outcome, signedAt>>
    BY <1>2, <1>6
  <2>2. CallTypeOK'
    BY <1>1, <1>3, <1>4, <2>1 DEF CallTypeOK
  <2>3. AccountTypeOK'
    <3>1. \A k \in Signers : Append(reactions[k], c) \in Seq(Awaiter)
      <4> SUFFICES ASSUME NEW k \in Signers PROVE Append(reactions[k], c) \in Seq(Awaiter)
        OBVIOUS
      <4>1. reactions[k] \in Seq(Awaiter) /\ c \in Awaiter
        BY <1>1 DEF AccountTypeOK, Awaiter
      <4> QED BY <4>1, AppendFacts
    <3>2. reactions' \in [Signers -> Seq(Awaiter)]
      BY <1>1, <2>1, <3>1 DEF AccountTypeOK, Awaiter
    <3> QED BY <1>1, <3>2 DEF AccountTypeOK, Awaiter
  <2>4. FetchShape'
    <3> SUFFICES ASSUME NEW k \in Signers PROVE FetchShapeOf(k)'
      BY DEF FetchShape
    <3>1. CASE k \in Promises(list)
      <4>1. proofOrPromise[k] = "promise" /\ reactions'[k] = Append(reactions[k], c)
        BY <2>1, <3>1 DEF Promises
      <4> QED BY <1>1, <4>1, JoinFetch DEF FetchShape
    <3>2. CASE k \notin Promises(list)
      BY <1>1, <2>1, <3>2, ShapeFrame DEF FetchShape
    <3> QED BY <3>1, <3>2
  <2>5. WaitingShape'
    <3> SUFFICES ASSUME NEW d \in Calls
                 PROVE  /\ at'[d] = "done" \/ outcome'[d] = Null
                        /\ at'[d] = "waiting" =>
                              /\ kind'[d] \in Awaited
                              /\ \A j \in Keyless(signers'[d]) : j \in unproven'[d] \/ proof'[j]
      BY DEF WaitingShape, Keyless
    <3>1. CASE d = c
      <4>1. unproven'[c] = Promises(list)
        BY <1>1, <2>1 DEF CallTypeOK
      <4>2. \A j \in Keyless(list) : j \in Promises(list) \/ proof[j]
        BY <1>1, <1>3 DEF FetchShape, FetchShapeOf, AwaitedFetch, Promises
      <4> QED BY <1>1, <1>4, <1>5, <1>6, <2>1, <3>1, <4>1, <4>2
    <3>2. CASE d # c
      <4>1. at'[d] = at[d] /\ unproven'[d] = unproven[d]
        BY <1>1, <2>1, <3>2 DEF CallTypeOK
      <4> QED BY <1>1, <1>4, <2>1, <3>2, <4>1 DEF IInv, WaitingShape
    <3> QED BY <3>1, <3>2
  <2>6. WaitedProofIsThere'
    BY <1>4, <1>5, <2>1 DEF IInv, WaitedProofIsThere
  <2> QED BY <2>2, <2>3, <2>4, <2>5, <2>6, ShapeTellsTheTruth, PTL DEF IInv
<1>7. CASE how \notin Awaited
  <2>1. Sign(c, how, list) /\ UNCHANGED <<unproven, reactions>>
    BY <1>2, <1>7
  <2>2. /\ at' \in [Calls -> {"idle", "waiting", "posting", "done"}]
        /\ outcome' \in [Calls -> Outcomes \cup {Null}]
        /\ signedAt' \in [Calls -> Nat]
        /\ at'[c] = "done" \/ (at'[c] = "posting" /\ outcome' = outcome)
        /\ \A d \in Calls \ {c} : at'[d] = at[d] /\ outcome'[d] = outcome[d]
    BY <1>1, <2>1, SignFacts
  <2>3. CallTypeOK'
    BY <1>1, <1>4, <2>1, <2>2 DEF CallTypeOK
  <2>4. AccountTypeOK' /\ FetchShape'
    BY <1>1, <2>1, ShapeFrame DEF FetchShape, AccountTypeOK
  <2>5. WaitingShape'
    <3> SUFFICES ASSUME NEW d \in Calls
                 PROVE  /\ at'[d] = "done" \/ outcome'[d] = Null
                        /\ at'[d] = "waiting" =>
                              /\ kind'[d] \in Awaited
                              /\ \A j \in Keyless(signers'[d]) : j \in unproven'[d] \/ proof'[j]
      BY DEF WaitingShape, Keyless
    <3>1. CASE d = c
      BY <1>5, <2>2, <3>1
    <3>2. CASE d # c
      BY <1>1, <1>4, <2>1, <2>2, <3>2 DEF IInv, WaitingShape
    <3> QED BY <3>1, <3>2
  <2>6. WaitedProofIsThere'
    BY <1>4, <1>7, <2>2 DEF IInv, WaitedProofIsThere
  <2> QED BY <2>3, <2>4, <2>5, <2>6, ShapeTellsTheTruth, PTL DEF IInv
<1> QED BY <1>6, <1>7

\* Every step keeps the inductive invariant.
LEMMA NextIInv == IInv /\ [Next]_vars => IInv'
<1> SUFFICES ASSUME IInv, [Next]_vars PROVE IInv'
  OBVIOUS
<1>1. ASSUME NEW k \in Signers, Derive(k), UNCHANGED callVars PROVE IInv'
  BY <1>1, deriveStep DEF Derive
<1>2. ASSUME NEW k \in Signers, AccountStep(k), UNCHANGED callVars PROVE IInv'
  BY <1>2, FetchStep, initStep, DerivedStep DEF AccountStep
<1>3. ASSUME NEW c \in Calls, NEW how \in Kinds, NEW given \in SignerLists(how),
             signAndSubmitTransaction(c, how, given)
      PROVE  IInv'
  BY <1>3, CallStep
<1>4. ASSUME NEW c \in Calls, Call(c) PROVE IInv'
  BY <1>4, ProofFetchedStep, SignWaitedStep, PostedStep DEF Call
<1>5. CASE Tick /\ UNCHANGED callVars
  BY <1>5, TickStep
<1>6. CASE UNCHANGED vars
  <2>1. UNCHANGED accountVars /\ UNCHANGED callVars
    BY <1>6 DEF vars
  <2>2. AccountTypeOK' /\ FetchShape'
    BY <2>1, ShapeFrame DEF IInv, FetchShape, AccountTypeOK, accountVars
  <2>3. CallTypeOK' /\ WaitedProofIsThere'
    BY <2>1 DEF IInv, CallTypeOK, WaitedProofIsThere, callVars
  <2>4. WaitingShape'
    BY <2>1, WaitingFrame DEF IInv, accountVars
  <2> QED BY <2>2, <2>3, <2>4, ShapeTellsTheTruth, PTL DEF IInv
<1> QED BY <1>1, <1>2, <1>3, <1>4, <1>5, <1>6 DEF Next

\* The inductive invariant holds in every reachable state.
THEOREM Invariance == Spec => []IInv
BY InitIInv, NextIInv, PTL DEF Spec

\* A call of signAndSubmitTransaction that waits for the proofs of its signers
\* never finds one missing when it signs, however the fetches and the calls
\* interleave.
THEOREM WaitedProofIsThereHolds == Spec => []WaitedProofIsThere
<1>1. IInv => WaitedProofIsThere
  BY DEF IInv
<1> QED BY <1>1, Invariance, PTL

\* proofFetchCallback is called at most once, and what it is told is so.
THEOREM CallbackIsToldTheTruthHolds == Spec => []CallbackIsToldTheTruth
<1>1. IInv => CallbackIsToldTheTruth
  BY DEF IInv
<1> QED BY <1>1, Invariance, PTL

-----------------------------------------------------------------------------
(***************************************************************************)
(* What is submitted, and the signers of a MultiKeyAccount.                *)
(***************************************************************************)

\* A finite set of keys has an order: the i-th is the one with i - 1 before it.
LEMMA KeyOrderExists ==
  ASSUME NEW n \in Nat, NEW list \in [1 .. n -> Members],
         \A i, j \in 1 .. n : list[i] = list[j] => i = j
  PROVE  \E sorted \in [1 .. n -> {list[i] : i \in 1 .. n}] : InKeyOrder(sorted)
<1> DEFINE All == {list[i] : i \in 1 .. n}
           Below(k) == {m \in All : KeyIndex[m] < KeyIndex[k]}
           rank == [k \in All |-> Cardinality(Below(k)) + 1]
<1>1. \A k \in All : KeyIndex[k] \in Nat
  BY IndexAssumption DEF IndexAssumption, Members
<1>2. \A k, m \in All : KeyIndex[k] = KeyIndex[m] => k = m
  BY IndexAssumption DEF IndexAssumption, Members
<1>3. IsFiniteSet(All) /\ Cardinality(All) = n
  <2>1. IsFiniteSet(1 .. n) /\ Cardinality(1 .. n) = n
    BY UpTo
  <2>2. list \in Bijection(1 .. n, All)
    BY DEF Bijection, Injection, Surjection, IsInjective
  <2> HIDE DEF All
  <2> QED
    BY <2>1, <2>2, FS_Bijection DEF ExistsBijection
<1>4. \A k \in All : IsFiniteSet(Below(k)) /\ Cardinality(Below(k)) \in Nat /\ Cardinality(Below(k)) < n
  <2> SUFFICES ASSUME NEW k \in All PROVE IsFiniteSet(Below(k)) /\ Cardinality(Below(k)) \in Nat /\ Cardinality(Below(k)) < n
    OBVIOUS
  <2>1. Below(k) \in SUBSET All /\ k \notin Below(k)
    BY <1>1
  <2> HIDE DEF All, Below
  <2>2. IsFiniteSet(Below(k)) /\ Cardinality(Below(k)) <= n /\ Cardinality(Below(k)) # n
    BY <1>3, <2>1, FS_Subset
  <2>3. Cardinality(Below(k)) \in Nat
    BY <2>2, FS_CardinalityType
  <2> QED
    BY <2>2, <2>3
<1>5. \A k, m \in All : KeyIndex[k] < KeyIndex[m] => Cardinality(Below(k)) < Cardinality(Below(m))
  <2> SUFFICES ASSUME NEW k \in All, NEW m \in All, KeyIndex[k] < KeyIndex[m]
               PROVE  Cardinality(Below(k)) < Cardinality(Below(m))
    OBVIOUS
  <2>1. Below(k) \in SUBSET Below(m) /\ k \in Below(m) /\ k \notin Below(k)
    BY <1>1
  <2> HIDE DEF All, Below, rank
  <2>2. /\ IsFiniteSet(Below(m))
        /\ Cardinality(Below(k)) \in Nat /\ Cardinality(Below(m)) \in Nat
    BY <1>4
  <2>3. Cardinality(Below(k)) <= Cardinality(Below(m)) /\ Cardinality(Below(k)) # Cardinality(Below(m))
    BY <2>1, <2>2, FS_Subset
  <2> QED
    BY <2>2, <2>3
<1>6. rank \in Surjection(All, 1 .. n)
  <2>1. rank \in Injection(All, 1 .. n)
    <3>1. rank \in [All -> 1 .. n]
      <4>1. \A k \in All : Cardinality(Below(k)) + 1 \in 1 .. n
        <5> HIDE DEF All, Below
        <5> QED
          BY <1>4
      <4> HIDE DEF All, Below
      <4> QED
        BY <4>1
    <3>2. \A k, m \in All : rank[k] = rank[m] => k = m
      <4> SUFFICES ASSUME NEW k \in All, NEW m \in All, rank[k] = rank[m] PROVE k = m
        OBVIOUS
      <4>1. Cardinality(Below(k)) + 1 = Cardinality(Below(m)) + 1
        OBVIOUS
      <4>3. KeyIndex[k] \in Nat /\ KeyIndex[m] \in Nat
        BY <1>1
      <4> HIDE DEF All, Below, rank
      <4>2. Cardinality(Below(k)) \in Nat /\ Cardinality(Below(m)) \in Nat
        BY <1>4
      <4>4. ~(KeyIndex[k] < KeyIndex[m]) /\ ~(KeyIndex[m] < KeyIndex[k])
        <5>1. Cardinality(Below(k)) = Cardinality(Below(m))
          <6>1. \A x, y \in Nat : x + 1 = y + 1 => x = y
            OBVIOUS
          <6> QED
            BY <4>1, <4>2, <6>1
        <5>2. ~(Cardinality(Below(k)) < Cardinality(Below(m))) /\ ~(Cardinality(Below(m)) < Cardinality(Below(k)))
          BY <4>2, <5>1
        <5> QED
          BY <1>5, <5>2
      <4> QED
        BY <1>2, <4>3, <4>4
    <3> QED
      BY <3>1, <3>2 DEF Injection, IsInjective
  <2>2. IsFiniteSet(1 .. n) /\ Cardinality(1 .. n) = n
    BY UpTo
  <2> HIDE DEF All, rank
  <2> QED
    BY <1>3, <2>1, <2>2, FS_Injection
<1> DEFINE sorted == [i \in 1 .. n |-> CHOOSE k \in All : rank[k] = i]
<1>7. \A i \in 1 .. n : sorted[i] \in All /\ rank[sorted[i]] = i
  <2> SUFFICES ASSUME NEW i \in 1 .. n PROVE sorted[i] \in All /\ rank[sorted[i]] = i
    OBVIOUS
  <2>1. sorted[i] = CHOOSE k \in All : rank[k] = i
    OBVIOUS
  <2> HIDE DEF All, rank, sorted
  <2>3. \E k \in All : rank[k] = i
    BY <1>6 DEF Surjection
  <2> QED
    BY <2>1, <2>3
<1>8. InKeyOrder(sorted)
  <2> SUFFICES ASSUME NEW i \in 1 .. n, NEW j \in 1 .. n, i < j
               PROVE  KeyIndex[sorted[i]] < KeyIndex[sorted[j]]
    BY DEF InKeyOrder
  <2> DEFINE k == sorted[i]
             m == sorted[j]
  <2>1. k \in All /\ m \in All /\ rank[k] = i /\ rank[m] = j
    BY <1>7
  <2> HIDE DEF sorted, k, m
  <2>2. Cardinality(Below(k)) + 1 = i /\ Cardinality(Below(m)) + 1 = j
    BY <2>1
  <2>3. KeyIndex[k] \in Nat /\ KeyIndex[m] \in Nat
    BY <1>1, <2>1
  <2> HIDE DEF All, Below, rank
  <2>4. KeyIndex[k] < KeyIndex[m]
    <3>1. Cardinality(Below(k)) \in Nat /\ Cardinality(Below(m)) \in Nat
      BY <1>4, <2>1
    <3>2. Cardinality(Below(k)) < Cardinality(Below(m))
      BY <2>2, <3>1
    <3>3. ~(KeyIndex[m] < KeyIndex[k])
      <4>1. ~(Cardinality(Below(m)) < Cardinality(Below(k)))
        BY <3>1, <3>2
      <4> QED
        BY <1>5, <2>1, <4>1
    <3>4. k # m
      BY <3>1, <3>2
    <3> QED
      BY <1>2, <2>1, <2>3, <3>3, <3>4
  <2> QED
    BY <2>4 DEF k, m
<1>9. sorted \in [1 .. n -> All]
  BY <1>7
<1> HIDE DEF All, sorted
<1> QED
  BY <1>8, <1>9 DEF All

\* The signers of a MultiKeyAccount as its constructor leaves them.
LEMMA SortedFacts ==
  ASSUME NEW n \in Nat, NEW list \in [1 .. n -> Members],
         \A i, j \in 1 .. n : list[i] = list[j] => i = j
  PROVE  Sorted(list) \in [1 .. n -> Members] /\ InKeyOrder(Sorted(list))
<1> DEFINE All == {list[i] : i \in 1 .. n}
<1>1. \E sorted \in [1 .. n -> All] : InKeyOrder(sorted)
  BY KeyOrderExists
<1>2. Sorted(list) = CHOOSE sorted \in [1 .. n -> All] : InKeyOrder(sorted)
  BY DEF Sorted
<1>3. Sorted(list) \in [1 .. n -> All] /\ InKeyOrder(Sorted(list))
  <2> HIDE DEF All
  <2> QED BY <1>1, <1>2
<1>4. All \subseteq Members
  OBVIOUS
<1> QED
  BY <1>3, <1>4

\* If there are as many bits as signers, the i-th signer is the one of the i-th bit.
LEMMA BitsFollowSigners ==
  ASSUME NEW n \in Nat, NEW list \in [1 .. n -> Members], InKeyOrder(list),
         Cardinality(Bitmap(list)) = Len(list)
  PROVE  \A i \in DOMAIN list :
            /\ KeyIndex[list[i]] \in Bitmap(list)
            /\ Cardinality({b \in Bitmap(list) : b < KeyIndex[list[i]]}) = i - 1
<1> DEFINE bits == {KeyIndex[list[i]] : i \in 1 .. n}
           bitOf == [i \in 1 .. n |-> KeyIndex[list[i]]]
<1>1. bitOf \in [1 .. n -> Nat] /\ \A i, j \in 1 .. n : i < j => bitOf[i] < bitOf[j]
  BY IndexAssumption DEF IndexAssumption, Members, InKeyOrder
<1>2. \A i, j \in 1 .. n : bitOf[i] = bitOf[j] => i = j
  <2> HIDE DEF bitOf
  <2> QED BY <1>1
<1>3. bits = {bitOf[i] : i \in 1 .. n}
  OBVIOUS
<1>4. Bitmap(list) \in SUBSET bits /\ Len(list) = n /\ DOMAIN list = 1 .. n
  <2>1. list \in Seq(Members)
    OBVIOUS
  <2> QED
    BY <2>1 DEF Bitmap
<1>5. IsFiniteSet(bits) /\ Cardinality(bits) = n
  <2>1. IsFiniteSet(1 .. n) /\ Cardinality(1 .. n) = n
    BY UpTo
  <2> HIDE DEF bitOf, bits
  <2>2. bitOf \in Bijection(1 .. n, bits)
    BY <1>1, <1>2, <1>3 DEF Bijection, Injection, Surjection, IsInjective
  <2> QED
    BY <2>1, <2>2, FS_Bijection DEF ExistsBijection
<1>6. Bitmap(list) = bits
  <2> HIDE DEF bits
  <2> QED
    BY <1>4, <1>5, FS_Subset
<1>7. ASSUME NEW i \in 1 .. n
      PROVE  Cardinality({b \in bits : b < bitOf[i]}) = i - 1
  <2> DEFINE under == {b \in bits : b < bitOf[i]}
             f == [j \in 1 .. (i - 1) |-> bitOf[j]]
  <2>1. under = {bitOf[j] : j \in 1 .. (i - 1)}
    <3> HIDE DEF bitOf, bits
    <3>1. \A j \in 1 .. n : bitOf[j] < bitOf[i] <=> j < i
      <4> SUFFICES ASSUME NEW j \in 1 .. n PROVE bitOf[j] < bitOf[i] <=> j < i
        OBVIOUS
      <4>1. j < i \/ j = i \/ i < j
        OBVIOUS
      <4>2. bitOf[j] \in Nat /\ bitOf[i] \in Nat
        BY <1>1
      <4> QED
        BY <1>1, <4>1, <4>2
    <3> QED
      BY <1>3, <3>1
  <2>2. f \in Bijection(1 .. (i - 1), under)
    <3> HIDE DEF bitOf
    <3>1. \A j \in 1 .. (i - 1) : f[j] = bitOf[j] /\ j \in 1 .. n
      OBVIOUS
    <3>2. f \in [1 .. (i - 1) -> under]
      BY <2>1
    <3>3. \A b \in under : \E j \in 1 .. (i - 1) : f[j] = b
      BY <2>1
    <3> HIDE DEF f, under
    <3> QED
      BY <1>2, <3>1, <3>2, <3>3 DEF Bijection, Injection, Surjection, IsInjective
  <2>3. IsFiniteSet(1 .. (i - 1)) /\ Cardinality(1 .. (i - 1)) = i - 1
    <3>1. i - 1 \in Nat
      OBVIOUS
    <3> QED
      BY <3>1, UpTo
  <2> HIDE DEF f, under
  <2>4. Cardinality(under) = i - 1
    BY <2>2, <2>3, FS_Bijection DEF ExistsBijection
  <2> QED
    BY <2>4 DEF under
<1> QED
  <2>1. \A i \in 1 .. n : KeyIndex[list[i]] = bitOf[i] /\ bitOf[i] \in bits
    OBVIOUS
  <2> HIDE DEF bits, bitOf
  <2> QED
    BY <1>4, <1>6, <1>7, <2>1

\* What a call needs to be submitted as it should, and what SubmittedIsSigned says
\* of it.
Arranged(c) ==
    at[c] # "idle" =>
       /\ \E n \in Nat : signers[c] \in [1 .. n -> Members]
       /\ kind[c] = "MultiKeyAccount" => InKeyOrder(signers[c])

IsSigned(c) ==
    at[c] = "posting" \/ outcome[c] = "submitted" =>
       /\ \A k \in Keyless(signers[c]) : proof[k] /\ signedAt[c] <= expiryDateSecs[k]
       /\ kind[c] = "MultiKeyAccount" =>
             \A i \in DOMAIN signers[c] :
                /\ KeyIndex[signers[c][i]] \in Bitmap(signers[c])
                /\ Cardinality({b \in Bitmap(signers[c]) : b < KeyIndex[signers[c][i]]}) = i - 1

Submissions == \A c \in Calls : Arranged(c) /\ IsSigned(c)

\* A proof that is there stays, and so does the life of its key.
ProofsStay == \A k \in Signers : proof[k] => proof'[k] /\ expiryDateSecs'[k] = expiryDateSecs[k]

LEMMA ProofsDoStay == IInv /\ [Next]_vars => ProofsStay
<1> SUFFICES ASSUME IInv, [Next]_vars PROVE ProofsStay
  OBVIOUS
<1> USE DEF ProofsStay
<1>1. AccountTypeOK /\ FetchShape
  BY DEF IInv
<1>2. proof \in [Signers -> BOOLEAN] /\ expiryDateSecs \in [Signers -> Nat]
  BY <1>1 DEF AccountTypeOK
<1>3. \A k \in Signers : FetchShapeOf(k)
  BY <1>1 DEF FetchShape
<1>4. ASSUME NEW k \in Signers, Derive(k) PROVE ProofsStay
  <2>1. account[k] = "none" /\ proof' = proof
        /\ \E expiry : expiryDateSecs' = [expiryDateSecs EXCEPT ![k] = expiry]
    BY <1>4 DEF Derive, deriveKeylessAccount
  <2>2. ~proof[k]
    BY <1>3, <2>1 DEF FetchShapeOf, BackgroundFetch, AwaitedFetch
  <2> QED
    BY <1>2, <2>1, <2>2
<1>5. ASSUME NEW k \in Signers, ConfigArrives(k) \/ ProofArrives(k) PROVE ProofsStay
  BY <1>5 DEF ConfigArrives, ProofArrives, unchangedByFetch
<1>6. ASSUME NEW k \in Signers, init(k) PROVE ProofsStay
  <2>1. reactions[k] # <<>> /\ Head(reactions[k]) = "init"
    BY <1>6 DEF init, NextReaction
  <2>2. reactions[k] \in Seq(Calls \cup {"init", "derive"})
    BY <1>1 DEF AccountTypeOK
  <2>3. InitPending(k)
    BY <2>1, <2>2 DEF InitPending
  <2>4. ~proof[k]
    <3>1. CASE proofOrPromise[k] = "promise"
      BY <1>3, <2>3, <3>1 DEF FetchShapeOf, BackgroundFetch
    <3>2. CASE proofOrPromise[k] # "promise"
      <4>1. reactions[k] \in {<<>>, <<"derive">>}
        BY <1>3, <3>2 DEF FetchShapeOf, AwaitedFetch
      <4> QED
        BY <2>1, <4>1
    <3> QED
      BY <3>1, <3>2
  <2> QED
    BY <1>2, <1>6, <2>4 DEF init
<1>7. ASSUME NEW k \in Signers, Derived(k) PROVE ProofsStay
  BY <1>2, <1>7 DEF Derived
<1>8. ASSUME NEW c \in Calls, NEW how, NEW given, signAndSubmitTransaction(c, how, given) PROVE ProofsStay
  BY <1>8 DEF signAndSubmitTransaction
<1>9. ASSUME NEW c \in Calls, Call(c) PROVE ProofsStay
  BY <1>9 DEF Call, ProofFetched, unchangedByProof, SignWaited, Posted, accountVars
<1>10. CASE Tick
  BY <1>10 DEF Tick
<1>11. CASE UNCHANGED vars
  BY <1>11 DEF vars, accountVars
<1> QED
  BY <1>4, <1>5, <1>6, <1>7, <1>8, <1>9, <1>10, <1>11 DEF Next, AccountStep

\* A call that a step leaves alone.
LEMMA SubmissionFrame ==
  ASSUME ProofsStay, NEW c \in Calls, Arranged(c), IsSigned(c),
         at'[c] = at[c], outcome'[c] = outcome[c], kind'[c] = kind[c],
         signers'[c] = signers[c], signedAt'[c] = signedAt[c]
  PROVE  Arranged(c)' /\ IsSigned(c)'
<1>1. Arranged(c)'
  BY DEF Arranged, InKeyOrder
<1>2. Keyless(signers'[c]) = Keyless(signers[c]) /\ Bitmap(signers'[c]) = Bitmap(signers[c])
      /\ Keyless(signers[c]) \subseteq Signers
  BY DEF Keyless
<1>3. IsSigned(c)'
  BY <1>2 DEF IsSigned, ProofsStay, Keyless, Bitmap
<1> QED
  BY <1>1, <1>3

\* A call that signs.
LEMMA SignMakes ==
  ASSUME CallTypeOK, AccountTypeOK, NEW c \in Calls, NEW how, NEW list, Sign(c, how, list),
         outcome[c] = Null, kind'[c] = how, signers'[c] = list,
         \E n \in Nat : list \in [1 .. n -> Members],
         how = "MultiKeyAccount" => InKeyOrder(list),
         UNCHANGED <<proof, expiryDateSecs>>
  PROVE  Arranged(c)' /\ IsSigned(c)'
<1>1. Arranged(c)'
  BY DEF Arranged, InKeyOrder
<1>2. Bitmap(signers'[c]) = Bitmap(list) /\ Keyless(signers'[c]) = Keyless(list)
  BY DEF Bitmap, Keyless
<1>3. CASE Throwing(list) = {} /\ BitsFit(how, list) /\ signedAt' = [signedAt EXCEPT ![c] = clock]
  <2>1. signedAt'[c] = clock
    BY <1>3 DEF CallTypeOK
  <2>2. \A k \in Keyless(list) : proof[k] /\ clock <= expiryDateSecs[k]
    BY <1>3 DEF Throwing, Keyless, isExpired, AccountTypeOK
  <2>3. ASSUME how = "MultiKeyAccount"
        PROVE  \A i \in DOMAIN list :
                  /\ KeyIndex[list[i]] \in Bitmap(list)
                  /\ Cardinality({b \in Bitmap(list) : b < KeyIndex[list[i]]}) = i - 1
    <3>1. InKeyOrder(list) /\ Cardinality(Bitmap(list)) = Len(list)
      BY <1>3, <2>3 DEF BitsFit
    <3>2. PICK n \in Nat : list \in [1 .. n -> Members]
      OBVIOUS
    <3> QED
      BY <3>1, <3>2, BitsFollowSigners
  <2> QED
    BY <1>1, <1>2, <2>1, <2>2, <2>3 DEF IsSigned
<1>4. CASE \E why \in SignErrors : End(c, why)
  <2>1. PICK why \in SignErrors : End(c, why)
    BY <1>4
  <2>2. at'[c] = "done" /\ outcome'[c] = why
    BY <2>1 DEF End, CallTypeOK
  <2> QED
    BY <1>1, <2>2 DEF IsSigned, SignErrors
<1> QED
  BY <1>3, <1>4 DEF Sign, SignErrors

LEMMA SubmissionsStep ==
  ASSUME IInv, [Next]_vars, Submissions
  PROVE  Submissions'
<1>1. ProofsStay /\ CallTypeOK /\ AccountTypeOK /\ WaitingShape
  BY ProofsDoStay DEF IInv
<1>2. ASSUME NEW c \in Calls,
             \A d \in Calls \ {c} : /\ at'[d] = at[d] /\ outcome'[d] = outcome[d] /\ kind'[d] = kind[d]
                                    /\ signers'[d] = signers[d] /\ signedAt'[d] = signedAt[d],
             Arranged(c)' /\ IsSigned(c)'
      PROVE  Submissions'
  <2>1. \A d \in Calls \ {c} : Arranged(d)' /\ IsSigned(d)'
    BY <1>1, <1>2, SubmissionFrame DEF Submissions
  <2> QED
    BY <1>2, <2>1 DEF Submissions
<1>3. ASSUME UNCHANGED callVars PROVE Submissions'
  <2>1. \A d \in Calls : Arranged(d)' /\ IsSigned(d)'
    BY <1>1, <1>3, SubmissionFrame DEF Submissions, callVars
  <2> QED
    BY <2>1 DEF Submissions
<1>4. ASSUME NEW c \in Calls, NEW how, NEW list, Sign(c, how, list)
      PROVE  \A d \in Calls \ {c} : at'[d] = at[d] /\ outcome'[d] = outcome[d] /\ signedAt'[d] = signedAt[d]
  BY <1>1, <1>4 DEF Sign, End, CallTypeOK
<1>5. ASSUME NEW c \in Calls, NEW how \in Kinds, NEW given \in SignerLists(how),
             signAndSubmitTransaction(c, how, given)
      PROVE  Submissions'
  <2> DEFINE list == IF how = "MultiKeyAccount" THEN Sorted(given) ELSE given
  <2>1. PICK n \in Nat : given \in [1 .. n -> Members] /\ \A i, j \in 1 .. n : given[i] = given[j] => i = j
    BY BoundAssumption DEF BoundAssumption, SignerLists
  <2>2. list \in [1 .. n -> Members] /\ (how = "MultiKeyAccount" => InKeyOrder(list))
    BY <2>1, SortedFacts
  <2>3. /\ at[c] = "idle" /\ outcome[c] = Null
        /\ kind' = [kind EXCEPT ![c] = how] /\ signers' = [signers EXCEPT ![c] = list]
        /\ UNCHANGED <<proof, expiryDateSecs>>
    BY <1>1, <1>5 DEF signAndSubmitTransaction, WaitingShape
  <2>4. \/ at' = [at EXCEPT ![c] = "waiting"] /\ UNCHANGED <<outcome, signedAt>>
        \/ Sign(c, how, list)
    BY <1>5 DEF signAndSubmitTransaction
  <2> HIDE DEF list
  <2>5. kind'[c] = how /\ signers'[c] = list
        /\ \A d \in Calls \ {c} : kind'[d] = kind[d] /\ signers'[d] = signers[d]
    BY <1>1, <2>3 DEF CallTypeOK
  <2>6. CASE Sign(c, how, list)
    <3>1. Arranged(c)' /\ IsSigned(c)'
      BY <1>1, <2>2, <2>3, <2>5, <2>6, SignMakes
    <3> QED
      BY <1>2, <1>4, <2>5, <2>6, <3>1
  <2>7. CASE at' = [at EXCEPT ![c] = "waiting"] /\ UNCHANGED <<outcome, signedAt>>
    <3>1. at'[c] = "waiting" /\ outcome'[c] = Null
      BY <1>1, <2>3, <2>7 DEF CallTypeOK
    <3>2. Arranged(c)' /\ IsSigned(c)'
      BY <2>2, <2>5, <3>1, NullAssumption DEF Arranged, InKeyOrder, IsSigned, Outcomes
    <3>3. \A d \in Calls \ {c} : at'[d] = at[d] /\ outcome'[d] = outcome[d] /\ signedAt'[d] = signedAt[d]
      BY <1>1, <2>7 DEF CallTypeOK
    <3> QED
      BY <1>2, <2>5, <3>2, <3>3
  <2> QED
    BY <2>4, <2>6, <2>7
<1>6. ASSUME NEW c \in Calls, SignWaited(c) PROVE Submissions'
  <2>1. /\ at[c] = "waiting" /\ Sign(c, kind[c], signers[c])
        /\ UNCHANGED <<kind, signers>> /\ UNCHANGED <<proof, expiryDateSecs>>
    BY <1>6 DEF SignWaited, accountVars
  <2>2. outcome[c] = Null /\ Arranged(c)
    BY <1>1, <2>1 DEF WaitingShape, Submissions
  <2>3. PICK how, list : how = kind[c] /\ list = signers[c]
    OBVIOUS
  <2>4. (\E n \in Nat : list \in [1 .. n -> Members]) /\ (how = "MultiKeyAccount" => InKeyOrder(list))
    BY <2>1, <2>2, <2>3 DEF Arranged
  <2>5. Sign(c, how, list) /\ kind'[c] = how /\ signers'[c] = list
    BY <2>1, <2>3
  <2>6. Arranged(c)' /\ IsSigned(c)'
    BY <1>1, <2>1, <2>2, <2>4, <2>5, SignMakes
  <2> QED
    BY <1>2, <1>4, <2>1, <2>5, <2>6
<1>7. ASSUME NEW c \in Calls, (\E k \in Signers : ProofFetched(c, k)) \/ Posted(c) PROVE Submissions'
  <2> DEFINE Finishes(why) == End(c, why) /\ (why = "submitted" => at[c] = "posting")
  <2>1. UNCHANGED <<kind, signers, signedAt, proof, expiryDateSecs>>
    BY <1>7 DEF ProofFetched, unchangedByProof, Posted, accountVars
  <2>2. CASE UNCHANGED <<at, outcome>>
    BY <1>1, <2>1, <2>2, SubmissionFrame DEF Submissions
  <2>3. CASE at[c] \in {"waiting", "posting"} /\ \E why : Finishes(why)
    <3>1. /\ at'[c] = "done" /\ (outcome'[c] = "submitted" => at[c] = "posting")
          /\ \A d \in Calls \ {c} : at'[d] = at[d] /\ outcome'[d] = outcome[d]
      BY <1>1, <2>3 DEF End, CallTypeOK
    <3>2. Arranged(c) /\ IsSigned(c)
      BY DEF Submissions
    <3>3. Arranged(c)'
      BY <2>1, <2>3, <3>2 DEF Arranged, InKeyOrder
    <3>4. Keyless(signers'[c]) = Keyless(signers[c]) /\ Bitmap(signers'[c]) = Bitmap(signers[c])
      BY <2>1 DEF Keyless, Bitmap
    <3>5. IsSigned(c)'
      BY <2>1, <3>1, <3>2, <3>4 DEF IsSigned
    <3> QED
      BY <1>2, <2>1, <3>1, <3>3, <3>5
  <2>4. UNCHANGED <<at, outcome>> \/ (at[c] \in {"waiting", "posting"} /\ \E why : Finishes(why))
    <3>1. CASE Posted(c)
      BY <3>1 DEF Posted
    <3>2. ASSUME NEW k \in Signers, ProofFetched(c, k)
          PROVE  UNCHANGED <<at, outcome>> \/ (at[c] = "waiting" /\ Finishes("fetch failed"))
      BY <3>2 DEF ProofFetched
    <3> HIDE DEF Last
    <3> QED
      BY <1>7, <3>1, <3>2
  <2> QED
    BY <2>2, <2>3, <2>4
<1> QED
  BY <1>3, <1>5, <1>6, <1>7 DEF Next, Call, vars

\* What signAndSubmitTransaction posts was signed by keys that were alive, each with
\* its proof, and the signatures of a MultiKeyAccount are in the order of the bits of
\* its bitmap, for any signers, key positions and numbers of signers.
THEOREM SubmittedIsSignedHolds == Spec => []SubmittedIsSigned
<1>1. Init => Submissions
  BY NullAssumption DEF Init, Submissions, Arranged, IsSigned, Outcomes
<1>2. IInv /\ Submissions /\ [Next]_vars => Submissions'
  BY SubmissionsStep
<1>3. Submissions => SubmittedIsSigned
  BY DEF Submissions, IsSigned, SubmittedIsSigned
<1> QED
  BY <1>1, <1>2, <1>3, Invariance, PTL DEF Spec

-----------------------------------------------------------------------------
(***************************************************************************)
(* KeyDerivation.  Bytes and the numbers they are packed into first.       *)
(***************************************************************************)

LEMMA LowestFirst ==
  ASSUME NEW n \in Nat, NEW x \in Digits(ByteValues, n), NEW y \in Digits(ByteValues, n),
         bytesToBigIntLE(x) = bytesToBigIntLE(y)
  PROVE  x = y
<1>1. ByteValues \in Nat \ {0}
  BY BytesAssumption DEF BytesAssumption
<1>2. Reverse(x) \in Digits(ByteValues, n) /\ Reverse(y) \in Digits(ByteValues, n)
  BY <1>1, Backwards
<1>3. Reverse(x) = Reverse(y)
  BY <1>1, <1>2, DigitsAreUnique DEF bytesToBigIntLE
<1>4. ASSUME NEW i \in 1 .. n
      PROVE  x[i] = y[i]
  <2>1. n + 1 - i \in 1 .. n /\ n + 1 - (n + 1 - i) = i
    OBVIOUS
  <2>2. Reverse(x)[n + 1 - i] = x[i] /\ Reverse(y)[n + 1 - i] = y[i]
    BY <1>1, <2>1, Backwards
  <2> QED
    BY <1>3, <2>2
<1> QED
  BY <1>4 DEF Digits

LEMMA LowestFirstBounds ==
  ASSUME NEW n \in Nat, NEW x \in Digits(ByteValues, n)
  PROVE  bytesToBigIntLE(x) \in Nat /\ bytesToBigIntLE(x) < Power(ByteValues, n)
<1>1. ByteValues \in Nat \ {0}
  BY BytesAssumption DEF BytesAssumption
<1>2. Reverse(x) \in Digits(ByteValues, n)
  BY <1>1, Backwards
<1> QED
  BY <1>1, <1>2, ValueBounds DEF bytesToBigIntLE

\* Bytes that fit into a scalar are told by it.
LEMMA OneScalar ==
  ASSUME NEW n \in 0 .. BYTES_PACKED_PER_SCALAR, NEW x \in Digits(ByteValues, n)
  PROVE  bytesToBigIntLE(x) \in Nat /\ bytesToBigIntLE(x) < FieldOrder
<1>1. ByteValues \in Nat \ {0} /\ BYTES_PACKED_PER_SCALAR \in Nat /\ n \in Nat /\ FieldOrder \in Nat
      /\ n <= BYTES_PACKED_PER_SCALAR
  BY BytesAssumption DEF BytesAssumption
<1>2. Power(ByteValues, n) <= Power(ByteValues, BYTES_PACKED_PER_SCALAR)
  BY <1>1, PowerOrder
<1>3. Power(ByteValues, n) \in Nat /\ Power(ByteValues, BYTES_PACKED_PER_SCALAR) \in Nat
  BY <1>1, PowerFacts
<1>4. bytesToBigIntLE(x) \in Nat /\ bytesToBigIntLE(x) < Power(ByteValues, n)
  BY <1>1, LowestFirstBounds
<1>5. Power(ByteValues, BYTES_PACKED_PER_SCALAR) <= FieldOrder
  BY BytesAssumption DEF BytesAssumption
<1> QED
  BY <1>1, <1>2, <1>3, <1>4, <1>5

\* A number below the order of the field is its own scalar.
LEMMA ScalarIsNumber ==
  ASSUME NEW v \in Nat, v < FieldOrder, FieldOrder \in Nat
  PROVE  Scalar(v) = v
BY DEF Scalar

-----------------------------------------------------------------------------
\* What packs bytes: the numbers of their chunks.
ChunksOf(size) == (size + BYTES_PACKED_PER_SCALAR - 1) \div BYTES_PACKED_PER_SCALAR
FirstOfChunk(k) == (k - 1) * BYTES_PACKED_PER_SCALAR + 1
LastOfChunk(k, size) ==
    IF k * BYTES_PACKED_PER_SCALAR <= size THEN k * BYTES_PACKED_PER_SCALAR ELSE size
SizeOfChunk(k, size) == LastOfChunk(k, size) + 1 - FirstOfChunk(k)

LEMMA ChunkPlaces ==
  ASSUME NEW size \in Nat
  PROVE  /\ ChunksOf(size) \in Nat
         /\ \A k \in 1 .. ChunksOf(size) :
               /\ SizeOfChunk(k, size) \in 0 .. BYTES_PACKED_PER_SCALAR
               /\ FirstOfChunk(k) \in Nat \ {0} /\ LastOfChunk(k, size) \in 0 .. size
               /\ FirstOfChunk(k) <= LastOfChunk(k, size)
         /\ \A i \in 1 .. size : \E k \in 1 .. ChunksOf(size) :
               FirstOfChunk(k) <= i /\ i <= LastOfChunk(k, size)
<1> DEFINE B == BYTES_PACKED_PER_SCALAR
<1>1. B \in Nat \ {0}
  BY BytesAssumption DEF BytesAssumption
<1> HIDE DEF B
<1>2. ChunksOf(size) = (size + B - 1) \div B
  BY DEF ChunksOf, B
<1>3. \A q \in Int : q = (size + B - 1) \div B <=> q * B <= size + B - 1 /\ size + B - 1 < q * B + B
  <2>1. size + B - 1 \in Nat
    BY <1>1
  <2> QED
    BY <1>1, <2>1
<1>4. (size + B - 1) \div B \in Nat
  BY <1>1
<1> DEFINE n == ChunksOf(size)
<1>5. n \in Nat /\ n * B <= size + B - 1 /\ size + B - 1 < n * B + B
  BY <1>2, <1>3, <1>4
<1> HIDE DEF n
<1>6. ASSUME NEW k \in 1 .. n
      PROVE  /\ SizeOfChunk(k, size) \in 0 .. B
             /\ FirstOfChunk(k) \in Nat \ {0} /\ LastOfChunk(k, size) \in 0 .. size
             /\ FirstOfChunk(k) <= LastOfChunk(k, size)
  <2>1. (k - 1) * B = k * B - B /\ (k - 1) * B \in Nat /\ k * B \in Nat
    BY <1>1, <1>5
  <2>2. k * B <= n * B
    BY <1>1, <1>5
  <2>3. n * B \in Nat
    BY <1>1, <1>5
  <2> QED
    BY <1>1, <1>5, <2>1, <2>2, <2>3 DEF SizeOfChunk, FirstOfChunk, LastOfChunk, B
<1>7. ASSUME NEW i \in 1 .. size
      PROVE  \E k \in 1 .. n : FirstOfChunk(k) <= i /\ i <= LastOfChunk(k, size)
  <2> DEFINE j == i - 1
             q == j \div B
  <2>1. j \in Nat /\ i = j + 1 /\ j < size
    OBVIOUS
  <2> HIDE DEF j
  <2>2. q \in Nat /\ q * B <= j /\ j < q * B + B
    BY <1>1, <2>1
  <2> HIDE DEF q
  <2>3. q * B \in Nat /\ (q + 1) * B = q * B + B
    BY <1>1, <2>2
  <2>4. q + 1 <= n
    <3>1. q * B < size
      BY <2>1, <2>2, <2>3
    <3>2. q * B < n * B
      <4>1. n * B \in Nat
        BY <1>1, <1>5
      <4>2. size <= n * B
        BY <1>1, <1>5, <4>1
      <4> QED
        BY <3>1, <4>1, <4>2, <2>3
    <3>3. ~(q >= n)
      <4>1. q >= n => q * B >= n * B
        BY <1>1, <1>5, <2>2
      <4>2. n * B \in Nat
        BY <1>1, <1>5
      <4> QED
        BY <4>1, <4>2, <3>2, <2>3
    <3> QED
      BY <3>3, <1>5, <2>2
  <2>5. FirstOfChunk(q + 1) <= i /\ i <= LastOfChunk(q + 1, size)
    <3>1. (q + 1) - 1 = q
      BY <2>2
    <3> QED
      BY <3>1, <2>1, <2>2, <2>3, <1>1 DEF FirstOfChunk, LastOfChunk, B
  <2> QED
    BY <2>2, <2>4, <2>5, <1>5
<1> QED
  BY <1>5, <1>6, <1>7 DEF n, B

\* The numbers padAndPackBytesWithLen makes of bytes x that are padded to size.
LEMMA PackShape ==
  ASSUME NEW size \in Nat, NEW x \in ByteStrings(size)
  PROVE  /\ padUint8ArrayWithZeros(x, size) \in Digits(ByteValues, size)
         /\ Len(packBytes(padUint8ArrayWithZeros(x, size))) = ChunksOf(size)
         /\ DOMAIN packBytes(padUint8ArrayWithZeros(x, size)) = 1 .. ChunksOf(size)
         /\ \A k \in 1 .. ChunksOf(size) :
               packBytes(padUint8ArrayWithZeros(x, size))[k] =
                 bytesToBigIntLE(SubSeq(padUint8ArrayWithZeros(x, size), FirstOfChunk(k), LastOfChunk(k, size)))
<1> DEFINE p == padUint8ArrayWithZeros(x, size)
<1>1. p \in Digits(ByteValues, size) /\ Len(p) = size
  <2>1. PICK n \in 0 .. size : x \in [1 .. n -> Bytes]
    BY DEF ByteStrings
  <2>2. Len(x) = n /\ 0 \in Bytes /\ \A i \in 1 .. n : x[i] \in Bytes
    BY <2>1, BytesAssumption DEF Bytes, BytesAssumption
  <2>3. \A i \in 1 .. size : (IF i <= Len(x) THEN x[i] ELSE 0) \in Bytes
    BY <2>2
  <2>4. p \in [1 .. size -> Bytes]
    BY <2>3 DEF padUint8ArrayWithZeros
  <2> QED
    BY <2>4 DEF Digits, Bytes
<1> HIDE DEF p
<1>2. ChunksOf(size) \in Nat
  BY ChunkPlaces
<1>3. packBytes(p) = [k \in 1 .. ChunksOf(size) |-> bytesToBigIntLE(SubSeq(p, FirstOfChunk(k), LastOfChunk(k, size)))]
  BY <1>1, <1>2 DEF packBytes, chunkUint8Array, ChunksOf, FirstOfChunk, LastOfChunk
<1> QED
  BY <1>1, <1>2, <1>3 DEF p

LEMMA PartOf ==
  ASSUME NEW size \in Nat, NEW S, NEW p \in [1 .. size -> S],
         NEW m \in Nat \ {0}, NEW n \in 0 .. size, m <= n
  PROVE  SubSeq(p, m, n) = [i \in 1 .. (n + 1 - m) |-> p[i + m - 1]]
<1>1. p \in Seq(S)
  OBVIOUS
<1> QED
  BY <1>1

LEMMA ChunkShape ==
  ASSUME NEW size \in Nat, NEW p \in Digits(ByteValues, size), NEW k \in 1 .. ChunksOf(size)
  PROVE  /\ SubSeq(p, FirstOfChunk(k), LastOfChunk(k, size)) \in Digits(ByteValues, SizeOfChunk(k, size))
         /\ \A i \in 1 .. size : FirstOfChunk(k) <= i /\ i <= LastOfChunk(k, size) =>
              /\ i - FirstOfChunk(k) + 1 \in 1 .. SizeOfChunk(k, size)
              /\ SubSeq(p, FirstOfChunk(k), LastOfChunk(k, size))[i - FirstOfChunk(k) + 1] = p[i]
<1> DEFINE m == FirstOfChunk(k)
           n == LastOfChunk(k, size)
<1>1. m \in Nat \ {0} /\ n \in 0 .. size /\ m <= n
  BY ChunkPlaces
<1>2. SizeOfChunk(k, size) = n + 1 - m
  BY DEF SizeOfChunk
<1> HIDE DEF m, n
<1>3. SubSeq(p, m, n) = [i \in 1 .. (n + 1 - m) |-> p[i + m - 1]]
  BY <1>1, PartOf DEF Digits
<1>4. \A i \in 1 .. (n + 1 - m) : i + m - 1 \in 1 .. size
  BY <1>1
<1>5. \A i \in 1 .. size : m <= i /\ i <= n =>
         i - m + 1 \in 1 .. (n + 1 - m) /\ (i - m + 1) + m - 1 = i
  BY <1>1
<1>6. SubSeq(p, m, n) \in Digits(ByteValues, n + 1 - m)
  BY <1>3, <1>4 DEF Digits
<1> QED
  BY <1>2, <1>3, <1>5, <1>6 DEF m, n

\* Numbers that are packed are scalars.
LEMMA PackedAreScalars ==
  ASSUME NEW size \in Nat, NEW x \in ByteStrings(size), NEW k \in 1 .. ChunksOf(size)
  PROVE  /\ packBytes(padUint8ArrayWithZeros(x, size))[k] \in Nat
         /\ packBytes(padUint8ArrayWithZeros(x, size))[k] < FieldOrder
<1> DEFINE p == padUint8ArrayWithZeros(x, size)
<1>1. p \in Digits(ByteValues, size)
      /\ packBytes(p)[k] = bytesToBigIntLE(SubSeq(p, FirstOfChunk(k), LastOfChunk(k, size)))
  BY PackShape
<1> HIDE DEF p
<1>2. SubSeq(p, FirstOfChunk(k), LastOfChunk(k, size)) \in Digits(ByteValues, SizeOfChunk(k, size))
      /\ SizeOfChunk(k, size) \in 0 .. BYTES_PACKED_PER_SCALAR
  BY <1>1, ChunkShape, ChunkPlaces
<1>3. packBytes(p)[k] \in Nat /\ packBytes(p)[k] < FieldOrder
  BY <1>1, <1>2, OneScalar
<1> QED
  BY <1>3 DEF p

\* The padded bytes are told by the numbers.
LEMMA PackedTell ==
  ASSUME NEW size \in Nat, NEW p \in Digits(ByteValues, size), NEW q \in Digits(ByteValues, size),
         \A k \in 1 .. ChunksOf(size) :
            bytesToBigIntLE(SubSeq(p, FirstOfChunk(k), LastOfChunk(k, size))) =
            bytesToBigIntLE(SubSeq(q, FirstOfChunk(k), LastOfChunk(k, size)))
  PROVE  p = q
<1>1. ASSUME NEW k \in 1 .. ChunksOf(size)
      PROVE  SubSeq(p, FirstOfChunk(k), LastOfChunk(k, size)) = SubSeq(q, FirstOfChunk(k), LastOfChunk(k, size))
  <2> DEFINE s == SubSeq(p, FirstOfChunk(k), LastOfChunk(k, size))
             t == SubSeq(q, FirstOfChunk(k), LastOfChunk(k, size))
             n == SizeOfChunk(k, size)
  <2>1. n \in Nat
    BY ChunkPlaces, BytesAssumption DEF BytesAssumption
  <2>2. s \in Digits(ByteValues, n) /\ t \in Digits(ByteValues, n)
    BY ChunkShape
  <2>3. bytesToBigIntLE(s) = bytesToBigIntLE(t)
    OBVIOUS
  <2> HIDE DEF s, t, n
  <2>4. s = t
    BY <2>1, <2>2, <2>3, LowestFirst
  <2> QED
    BY <2>4 DEF s, t
<1>2. ASSUME NEW i \in 1 .. size
      PROVE  p[i] = q[i]
  <2>1. PICK k \in 1 .. ChunksOf(size) : FirstOfChunk(k) <= i /\ i <= LastOfChunk(k, size)
    BY ChunkPlaces
  <2>2. SubSeq(p, FirstOfChunk(k), LastOfChunk(k, size))[i - FirstOfChunk(k) + 1] = p[i]
    BY <2>1, ChunkShape
  <2>3. SubSeq(q, FirstOfChunk(k), LastOfChunk(k, size))[i - FirstOfChunk(k) + 1] = q[i]
    BY <2>1, ChunkShape
  <2> QED
    BY <1>1, <2>2, <2>3
<1> QED
  BY <1>2 DEF Digits

\* Bytes of the same length that are padded alike are the same.
LEMMA PaddingTells ==
  ASSUME NEW size \in Nat, NEW x \in ByteStrings(size), NEW y \in ByteStrings(size), Len(x) = Len(y),
         padUint8ArrayWithZeros(x, size) = padUint8ArrayWithZeros(y, size)
  PROVE  x = y
<1>1. PICK m \in 0 .. size : x \in [1 .. m -> Bytes]
  BY DEF ByteStrings
<1>2. PICK n \in 0 .. size : y \in [1 .. n -> Bytes]
  BY DEF ByteStrings
<1>3. Len(x) = m /\ Len(y) = n /\ m = n
  BY <1>1, <1>2
<1>4. ASSUME NEW i \in 1 .. m
      PROVE  x[i] = y[i]
  <2>1. i \in 1 .. size /\ i <= Len(x) /\ i <= Len(y)
    BY <1>3
  <2>2. padUint8ArrayWithZeros(x, size)[i] = x[i] /\ padUint8ArrayWithZeros(y, size)[i] = y[i]
    BY <2>1 DEF padUint8ArrayWithZeros
  <2> QED
    BY <2>2
<1> QED
  BY <1>1, <1>2, <1>3, <1>4

LEMMA OneMore ==
  ASSUME NEW n \in Nat, NEW s \in [1 .. n -> Nat], NEW v \in Nat
  PROVE  /\ s \o <<v>> \in [1 .. (n + 1) -> Nat]
         /\ \A k \in 1 .. n : (s \o <<v>>)[k] = s[k]
         /\ (s \o <<v>>)[n + 1] = v
<1>1. s \in Seq(Nat) /\ Len(s) = n /\ <<v>> \in Seq(Nat) /\ Len(<<v>>) = 1 /\ <<v>>[1] = v
  OBVIOUS
<1>2. s \o <<v>> \in Seq(Nat) /\ Len(s \o <<v>>) = n + 1
  BY <1>1
<1>3. \A k \in 1 .. n : (s \o <<v>>)[k] = s[k]
  BY <1>1
<1>4. (s \o <<v>>)[n + 1] = v
  BY <1>1
<1>5. s \o <<v>> \in [1 .. (n + 1) -> Nat]
  <2> DEFINE longer == s \o <<v>>
  <2>1. longer \in Seq(Nat) /\ Len(longer) = n + 1
    BY <1>2
  <2> HIDE DEF longer
  <2>2. longer \in [1 .. (n + 1) -> Nat]
    BY <2>1
  <2> QED
    BY <2>2 DEF longer
<1> QED
  BY <1>3, <1>4, <1>5

\* What padAndPackBytesWithLen returns: scalars, by which the bytes are told.
LEMMA FieldsShape ==
  ASSUME NEW size \in Nat, NEW x \in ByteStrings(size)
  PROVE  /\ padAndPackBytesWithLen(x, size) \in [1 .. (ChunksOf(size) + 1) -> Nat]
         /\ \A k \in 1 .. ChunksOf(size) :
               /\ padAndPackBytesWithLen(x, size)[k] = packBytes(padUint8ArrayWithZeros(x, size))[k]
               /\ padAndPackBytesWithLen(x, size)[k] < FieldOrder
         /\ padAndPackBytesWithLen(x, size)[ChunksOf(size) + 1] = Len(x)
         /\ Len(x) \in 0 .. size
<1> DEFINE s == packBytes(padUint8ArrayWithZeros(x, size))
           n == ChunksOf(size)
<1>1. n \in Nat
  BY ChunkPlaces
<1>2. Len(s) = n /\ DOMAIN s = 1 .. n
  BY PackShape
<1>3. \A k \in 1 .. n : s[k] \in Nat /\ s[k] < FieldOrder
  BY PackedAreScalars
<1>4. Len(x) \in 0 .. size
  <2>1. PICK m \in 0 .. size : x \in [1 .. m -> Bytes]
    BY DEF ByteStrings
  <2> QED
    BY <2>1
<1>5. s \in [1 .. n -> Nat]
  <2>1. s = [k \in 1 .. n |-> s[k]]
    <3>1. s = [k \in DOMAIN s |-> s[k]]
      BY DEF packBytes
    <3> QED
      BY <1>2, <3>1
  <2> HIDE DEF s
  <2> QED
    BY <1>3, <2>1
<1>6. padAndPackBytesWithLen(x, size) = s \o <<Len(x)>>
  BY DEF padAndPackBytesWithLen
<1> HIDE DEF s, n
<1>7. /\ s \o <<Len(x)>> \in [1 .. (n + 1) -> Nat]
      /\ \A k \in 1 .. n : (s \o <<Len(x)>>)[k] = s[k]
      /\ (s \o <<Len(x)>>)[n + 1] = Len(x)
  <2>1. Len(x) \in Nat
    BY <1>4
  <2> QED
    BY <1>1, <1>5, <2>1, OneMore
<1> QED
  BY <1>3, <1>4, <1>6, <1>7 DEF s, n

LEMMA FieldsTell ==
  ASSUME NEW size \in Nat, NEW x \in ByteStrings(size), NEW y \in ByteStrings(size),
         padAndPackBytesWithLen(x, size) = padAndPackBytesWithLen(y, size)
  PROVE  x = y
<1>1. Len(x) = Len(y)
  BY FieldsShape
<1> DEFINE p == padUint8ArrayWithZeros(x, size)
           q == padUint8ArrayWithZeros(y, size)
<1>2. p \in Digits(ByteValues, size) /\ q \in Digits(ByteValues, size)
  BY PackShape
<1>3. ASSUME NEW k \in 1 .. ChunksOf(size)
      PROVE  packBytes(p)[k] = packBytes(q)[k]
  BY FieldsShape
<1>4. ASSUME NEW k \in 1 .. ChunksOf(size)
      PROVE  bytesToBigIntLE(SubSeq(p, FirstOfChunk(k), LastOfChunk(k, size))) =
             bytesToBigIntLE(SubSeq(q, FirstOfChunk(k), LastOfChunk(k, size)))
  BY <1>3, PackShape
<1> HIDE DEF p, q
<1>5. p = q
  BY <1>2, <1>4, PackedTell
<1> QED
  BY <1>1, <1>5, PaddingTells DEF p, q

LEMMA ScalarsAre ==
  ASSUME NEW n \in Nat, NEW s \in [1 .. n -> Nat], \A k \in 1 .. n : s[k] < FieldOrder
  PROVE  Scalars(s) = s
<1>1. FieldOrder \in Nat
  BY BytesAssumption DEF BytesAssumption
<1>2. \A k \in 1 .. n : Scalar(s[k]) = s[k]
  BY <1>1, ScalarIsNumber
<1> QED
  BY <1>2 DEF Scalars

LEMMA StringsAreTold ==
  ASSUME NEW size \in Nat, size < FieldOrder, NEW x \in ByteStrings(size), NEW y \in ByteStrings(size),
         hashStrToField(x, size) = hashStrToField(y, size)
  PROVE  x = y
<1> DEFINE s == padAndPackBytesWithLen(x, size)
           t == padAndPackBytesWithLen(y, size)
           n == ChunksOf(size)
<1>0. n \in Nat /\ FieldOrder \in Nat
  BY ChunkPlaces, BytesAssumption DEF BytesAssumption
<1>1. Scalars(s) = s
  <2>1. s \in [1 .. (n + 1) -> Nat] /\ (\A k \in 1 .. n : s[k] < FieldOrder) /\ s[n + 1] = Len(x) /\ Len(x) \in 0 .. size
    BY FieldsShape
  <2> HIDE DEF s, n
  <2>2. \A k \in 1 .. (n + 1) : s[k] < FieldOrder
    BY <1>0, <2>1
  <2> QED
    BY <1>0, <2>1, <2>2, ScalarsAre
<1>2. Scalars(t) = t
  <2>1. t \in [1 .. (n + 1) -> Nat] /\ (\A k \in 1 .. n : t[k] < FieldOrder) /\ t[n + 1] = Len(y) /\ Len(y) \in 0 .. size
    BY FieldsShape
  <2> HIDE DEF t, n
  <2>2. \A k \in 1 .. (n + 1) : t[k] < FieldOrder
    BY <1>0, <2>1
  <2> QED
    BY <1>0, <2>1, <2>2, ScalarsAre
<1>3. Scalars(s) = Scalars(t)
  BY DEF hashStrToField, poseidonHash
<1> QED
  BY <1>1, <1>2, <1>3, FieldsTell

-----------------------------------------------------------------------------
\* The keys of two identities that are short enough.
LEMMA ShortFits ==
  ASSUME NEW m \in Nat, NEW limit \in Nat, NEW x \in ByteStrings(m), IsAtMost(x, limit)
  PROVE  x \in ByteStrings(limit)
<1>1. PICK n \in 0 .. m : x \in [1 .. n -> Bytes]
  BY DEF ByteStrings
<1>2. Len(x) = n
  BY <1>1
<1>3. n \in 0 .. limit
  BY <1>2 DEF IsAtMost
<1> QED
  BY <1>1, <1>3 DEF ByteStrings

LEMMA KeysTellIdentities ==
  ASSUME NEW x \in Identity, NEW y \in Identity, IsShort(x), IsShort(y),
         NewKeylessPublicKey(x) = NewKeylessPublicKey(y)
  PROVE  /\ x.iss = y.iss /\ x.aud = y.aud /\ x.uidKey = y.uidKey /\ x.uidVal = y.uidVal
         /\ Len(x.pepper) = PEPPER_LENGTH /\ Len(y.pepper) = PEPPER_LENGTH => x.pepper = y.pepper
<1> DEFINE inputs(i) ==
             <<Scalar(bytesToBigIntLE(i.pepper)), hashStrToField(i.aud, MAX_AUD_VAL_BYTES),
               hashStrToField(i.uidVal, MAX_UID_VAL_BYTES), hashStrToField(i.uidKey, MAX_UID_KEY_BYTES)>>
<1>1. x.iss = y.iss /\ computeIdCommitment(x) = computeIdCommitment(y)
  BY DEF NewKeylessPublicKey
<1>2. inputs(x) = inputs(y)
  <2>1. \A i : computeIdCommitment(i) = bigIntToBytesLE(poseidonHash(inputs(i)), ID_COMMITMENT_LENGTH)
    BY DEF computeIdCommitment
  <2> HIDE DEF inputs
  <2> QED
    BY <1>1, <2>1 DEF bigIntToBytesLE, poseidonHash
<1>3. /\ Scalar(bytesToBigIntLE(x.pepper)) = Scalar(bytesToBigIntLE(y.pepper))
      /\ hashStrToField(x.aud, MAX_AUD_VAL_BYTES) = hashStrToField(y.aud, MAX_AUD_VAL_BYTES)
      /\ hashStrToField(x.uidVal, MAX_UID_VAL_BYTES) = hashStrToField(y.uidVal, MAX_UID_VAL_BYTES)
      /\ hashStrToField(x.uidKey, MAX_UID_KEY_BYTES) = hashStrToField(y.uidKey, MAX_UID_KEY_BYTES)
  BY <1>2
<1>4. \A limit \in {MAX_AUD_VAL_BYTES, MAX_UID_VAL_BYTES, MAX_UID_KEY_BYTES} :
         limit \in Nat /\ limit + 1 \in Nat /\ limit < FieldOrder
  BY LimitsAssumption DEF LimitsAssumption
<1>5. /\ x.aud \in ByteStrings(MAX_AUD_VAL_BYTES) /\ y.aud \in ByteStrings(MAX_AUD_VAL_BYTES)
      /\ x.uidVal \in ByteStrings(MAX_UID_VAL_BYTES) /\ y.uidVal \in ByteStrings(MAX_UID_VAL_BYTES)
      /\ x.uidKey \in ByteStrings(MAX_UID_KEY_BYTES) /\ y.uidKey \in ByteStrings(MAX_UID_KEY_BYTES)
  <2>1. ASSUME NEW i \in Identity, IsShort(i)
        PROVE  /\ i.aud \in ByteStrings(MAX_AUD_VAL_BYTES)
               /\ i.uidVal \in ByteStrings(MAX_UID_VAL_BYTES)
               /\ i.uidKey \in ByteStrings(MAX_UID_KEY_BYTES)
    <3>1. /\ i.aud \in ByteStrings(MAX_AUD_VAL_BYTES + 1)
          /\ i.uidVal \in ByteStrings(MAX_UID_VAL_BYTES + 1)
          /\ i.uidKey \in ByteStrings(MAX_UID_KEY_BYTES + 1)
      BY DEF Identity
    <3>2. /\ IsAtMost(i.aud, MAX_AUD_VAL_BYTES) /\ IsAtMost(i.uidVal, MAX_UID_VAL_BYTES)
          /\ IsAtMost(i.uidKey, MAX_UID_KEY_BYTES)
      BY <2>1 DEF IsShort
    <3> QED
      BY <1>4, <3>1, <3>2, ShortFits
  <2> QED
    BY <2>1
<1>6. x.aud = y.aud
  BY <1>3, <1>4, <1>5, StringsAreTold
<1>7. x.uidVal = y.uidVal
  BY <1>3, <1>4, <1>5, StringsAreTold
<1>8. x.uidKey = y.uidKey
  BY <1>3, <1>4, <1>5, StringsAreTold
<1>9. ASSUME Len(x.pepper) = PEPPER_LENGTH, Len(y.pepper) = PEPPER_LENGTH
      PROVE  x.pepper = y.pepper
  <2>1. ASSUME NEW i \in Identity, Len(i.pepper) = PEPPER_LENGTH
        PROVE  i.pepper \in Digits(ByteValues, PEPPER_LENGTH)
    <3>1. i.pepper \in ByteStrings(MaxPepper)
      BY DEF Identity
    <3>2. PICK n \in 0 .. MaxPepper : i.pepper \in [1 .. n -> Bytes]
      BY <3>1 DEF ByteStrings
    <3>3. Len(i.pepper) = n
      BY <3>2, BytesAssumption DEF BytesAssumption
    <3> QED
      BY <2>1, <3>2, <3>3 DEF Digits, Bytes
  <2> DEFINE p == x.pepper
             q == y.pepper
  <2>2. p \in Digits(ByteValues, PEPPER_LENGTH) /\ q \in Digits(ByteValues, PEPPER_LENGTH)
    BY <1>9, <2>1
  <2>3. Scalar(bytesToBigIntLE(p)) = Scalar(bytesToBigIntLE(q))
    BY <1>3
  <2> HIDE DEF p, q
  <2>4. PEPPER_LENGTH \in 0 .. BYTES_PACKED_PER_SCALAR /\ PEPPER_LENGTH \in Nat /\ FieldOrder \in Nat
    BY BytesAssumption DEF BytesAssumption
  <2>5. /\ bytesToBigIntLE(p) \in Nat /\ bytesToBigIntLE(p) < FieldOrder
        /\ bytesToBigIntLE(q) \in Nat /\ bytesToBigIntLE(q) < FieldOrder
    BY <2>2, <2>4, OneScalar
  <2>6. bytesToBigIntLE(p) = bytesToBigIntLE(q)
    BY <2>3, <2>4, <2>5, ScalarIsNumber
  <2>7. p = q
    BY <2>2, <2>4, <2>6, LowestFirst
  <2> QED
    BY <2>7 DEF p, q
<1> QED
  BY <1>1, <1>6, <1>7, <1>8, <1>9

-----------------------------------------------------------------------------
\* The nonce that the constructor computes.
NonceOf(publicKey, expires, blinder) ==
    poseidonHash(Scalars(padAndPackBytesWithLen(publicKeyBytes(publicKey), MAX_COMMITED_EPK_BYTES)
                           \o <<expires, bytesToBigIntLE(blinder)>>))

PairOf(publicKey, expires, blinder) ==
    [publicKey |-> publicKey, expiryDateSecs |-> expires, blinder |-> blinder,
     nonce |-> NonceOf(publicKey, expires, blinder)]

Expiry == {e \in Nat : e < FieldOrder}
IsPair(p) ==
    \E k \in PublicKeys, e \in Expiry, b \in Blinders : p = PairOf(k, e, b)
IsStored(s) ==
    \E k \in PublicKeys, e \in Expiry, b \in Blinders :
       s = [publicKey |-> k, expiryDateSecs |-> e, blinder |-> b]

EndsWith(longer, n, s, v, w) ==
    /\ longer \in [1 .. (n + 2) -> Nat]
    /\ \A k \in 1 .. n : longer[k] = s[k]
    /\ longer[n + 1] = v /\ longer[n + 2] = w

LEMMA TwoMore ==
  ASSUME NEW n \in Nat, NEW s \in [1 .. n -> Nat], NEW v \in Nat, NEW w \in Nat
  PROVE  EndsWith(s \o <<v, w>>, n, s, v, w)
<1>1. s \in Seq(Nat) /\ Len(s) = n /\ <<v, w>> \in Seq(Nat) /\ Len(<<v, w>>) = 2
      /\ <<v, w>>[1] = v /\ <<v, w>>[2] = w
  OBVIOUS
<1>2. s \o <<v, w>> \in Seq(Nat) /\ Len(s \o <<v, w>>) = n + 2
  BY <1>1
<1>3. \A k \in 1 .. n : (s \o <<v, w>>)[k] = s[k]
  BY <1>1
<1>4. (s \o <<v, w>>)[n + 1] = v /\ (s \o <<v, w>>)[n + 2] = w
  BY <1>1
<1>5. s \o <<v, w>> \in [1 .. (n + 2) -> Nat]
  <2> DEFINE longer == s \o <<v, w>>
  <2>1. longer \in Seq(Nat) /\ Len(longer) = n + 2
    BY <1>2
  <2> HIDE DEF longer
  <2>2. longer \in [1 .. (n + 2) -> Nat]
    BY <2>1
  <2> QED
    BY <2>2 DEF longer
<1> QED
  BY <1>3, <1>4, <1>5 DEF EndsWith

LEMMA CommittedKeys ==
  ASSUME NEW k \in PublicKeys
  PROVE  /\ publicKeyBytes(k) \in ByteStrings(MAX_COMMITED_EPK_BYTES)
         /\ \A j \in PublicKeys : publicKeyBytes(k) = publicKeyBytes(j) => k = j
<1>0. /\ KEY_LENGTH \in Bytes /\ KEY_LENGTH \in Nat /\ KEY_LENGTH + 2 <= MAX_COMMITED_EPK_BYTES
      /\ MAX_COMMITED_EPK_BYTES \in Nat /\ 0 \in Bytes /\ ByteValues \in Nat
  <2>1. ByteValues \in Nat \ {0}
    BY BytesAssumption DEF BytesAssumption
  <2>2. KEY_LENGTH \in Bytes /\ KEY_LENGTH + 2 <= MAX_COMMITED_EPK_BYTES
    BY PairsAssumption DEF PairsAssumption
  <2>3. MAX_COMMITED_EPK_BYTES \in Nat
    BY LimitsAssumption DEF LimitsAssumption
  <2> QED
    BY <2>1, <2>2, <2>3 DEF Bytes
<1>1. ASSUME NEW j \in PublicKeys
      PROVE  /\ publicKeyBytes(j) \in [1 .. (KEY_LENGTH + 2) -> Bytes]
             /\ \A i \in 1 .. KEY_LENGTH : publicKeyBytes(j)[i + 2] = j[i]
  <2>1. /\ <<0, KEY_LENGTH>> \in Seq(Bytes) /\ Len(<<0, KEY_LENGTH>>) = 2
        /\ j \in Seq(Bytes) /\ Len(j) = KEY_LENGTH
    BY <1>0 DEF PublicKeys
  <2>2. publicKeyBytes(j) \in Seq(Bytes) /\ Len(publicKeyBytes(j)) = KEY_LENGTH + 2
    BY <1>0, <2>1 DEF publicKeyBytes
  <2>3. \A i \in 1 .. KEY_LENGTH : publicKeyBytes(j)[i + 2] = j[i]
    BY <1>0, <2>1 DEF publicKeyBytes
  <2>4. publicKeyBytes(j) \in [1 .. (KEY_LENGTH + 2) -> Bytes]
    BY <2>2
  <2> QED
    BY <2>3, <2>4
<1>2. KEY_LENGTH + 2 \in 0 .. MAX_COMMITED_EPK_BYTES
  BY <1>0
<1>3. publicKeyBytes(k) \in ByteStrings(MAX_COMMITED_EPK_BYTES)
  BY <1>1, <1>2 DEF ByteStrings
<1>4. ASSUME NEW j \in PublicKeys, publicKeyBytes(k) = publicKeyBytes(j)
      PROVE  k = j
  <2>1. \A i \in 1 .. KEY_LENGTH : k[i] = j[i]
    <3>1. \A i \in 1 .. KEY_LENGTH : publicKeyBytes(k)[i + 2] = k[i] /\ publicKeyBytes(j)[i + 2] = j[i]
      BY <1>1
    <3> QED
      BY <1>4, <3>1
  <2>2. k \in [1 .. KEY_LENGTH -> Bytes] /\ j \in [1 .. KEY_LENGTH -> Bytes]
    BY DEF PublicKeys
  <2> QED
    BY <2>1, <2>2, <1>0
<1> QED
  BY <1>3, <1>4

\* What a nonce says of the pair.
LEMMA NonceTells ==
  ASSUME NEW k \in PublicKeys, NEW e \in Expiry, NEW b \in Blinders,
         NEW j \in PublicKeys, NEW f \in Expiry, NEW c \in Blinders,
         NonceOf(k, e, b) = NonceOf(j, f, c)
  PROVE  k = j /\ e = f /\ b = c
<1> DEFINE size == MAX_COMMITED_EPK_BYTES
           n == ChunksOf(size)
           fields(p) == padAndPackBytesWithLen(publicKeyBytes(p), size)
           all(p, t, r) == fields(p) \o <<t, bytesToBigIntLE(r)>>
<1>0. size \in Nat /\ size < FieldOrder /\ FieldOrder \in Nat
  BY LimitsAssumption, BytesAssumption DEF LimitsAssumption, BytesAssumption
<1>1. n \in Nat
  BY <1>0, ChunkPlaces
<1>2. ASSUME NEW p \in PublicKeys
      PROVE  /\ fields(p) \in [1 .. (n + 1) -> Nat]
             /\ \A i \in 1 .. (n + 1) : fields(p)[i] < FieldOrder
  <2> DEFINE x == publicKeyBytes(p)
  <2>1. x \in ByteStrings(size)
    BY CommittedKeys
  <2> HIDE DEF x
  <2>2. /\ padAndPackBytesWithLen(x, size) \in [1 .. (n + 1) -> Nat]
        /\ \A i \in 1 .. n : padAndPackBytesWithLen(x, size)[i] < FieldOrder
        /\ padAndPackBytesWithLen(x, size)[n + 1] = Len(x) /\ Len(x) \in 0 .. size
    BY <1>0, <2>1, FieldsShape
  <2>3. fields(p) = padAndPackBytesWithLen(x, size)
    BY DEF x
  <2> HIDE DEF fields, size, n
  <2> QED
    BY <1>0, <1>1, <2>2, <2>3
<1> DEFINE value(r) == bytesToBigIntLE(r)
<1>3. \A r \in Blinders : r \in Digits(ByteValues, BLINDER_LENGTH) /\ value(r) \in Nat /\ value(r) < FieldOrder
  <2>1. BLINDER_LENGTH \in 0 .. BYTES_PACKED_PER_SCALAR
    BY BytesAssumption DEF BytesAssumption
  <2>2. \A r \in Blinders : r \in Digits(ByteValues, BLINDER_LENGTH)
    BY DEF Blinders, Digits, Bytes
  <2> QED
    BY <2>1, <2>2, OneScalar
<1>4. \A t \in Expiry : t \in Nat /\ t < FieldOrder
  BY DEF Expiry
<1> HIDE DEF size, n, fields, value
<1>5. ASSUME NEW p \in PublicKeys, NEW t \in Expiry, NEW r \in Blinders
      PROVE  /\ Scalars(all(p, t, r)) = all(p, t, r)
             /\ \A i \in 1 .. (n + 1) : all(p, t, r)[i] = fields(p)[i]
             /\ all(p, t, r)[n + 2] = t /\ all(p, t, r)[n + 3] = value(r)
  <2> DEFINE a == all(p, t, r)
  <2>1. a = fields(p) \o <<t, value(r)>>
    BY DEF value
  <2>2. n + 1 \in Nat /\ (n + 1) + 1 = n + 2 /\ (n + 1) + 2 = n + 3 /\ n + 3 \in Nat
    BY <1>1
  <2>3. t \in Nat /\ value(r) \in Nat
    BY <1>3, <1>4
  <2>4. /\ a \in [1 .. ((n + 1) + 2) -> Nat]
        /\ \A i \in 1 .. (n + 1) : a[i] = fields(p)[i]
        /\ a[(n + 1) + 1] = t /\ a[(n + 1) + 2] = value(r)
    <3> DEFINE s == fields(p)
               w == value(r)
               m == n + 1
    <3>1. s \in [1 .. m -> Nat] /\ m \in Nat /\ w \in Nat /\ t \in Nat
      BY <1>2, <2>2, <2>3
    <3>2. a = s \o <<t, w>>
      BY <2>1
    <3> HIDE DEF a, s, w, m
    <3>3. EndsWith(s \o <<t, w>>, m, s, t, w)
      BY <3>1, TwoMore
    <3>4. /\ a \in [1 .. (m + 2) -> Nat]
          /\ \A i \in 1 .. m : a[i] = s[i]
          /\ a[m + 1] = t /\ a[m + 2] = w
      BY <3>2, <3>3 DEF EndsWith
    <3> QED
      BY <3>4 DEF s, w, m
  <2> HIDE DEF a
  <2>5. /\ a \in [1 .. (n + 3) -> Nat] /\ a[n + 2] = t /\ a[n + 3] = value(r)
    BY <2>2, <2>4
  <2>6. \A i \in 1 .. (n + 3) : i \in 1 .. (n + 1) \/ i = n + 2 \/ i = n + 3
    BY <1>1
  <2>7. \A i \in 1 .. (n + 3) : a[i] < FieldOrder
    BY <1>2, <1>3, <1>4, <2>4, <2>5, <2>6
  <2>8. Scalars(a) = a
    BY <2>2, <2>5, <2>7, ScalarsAre
  <2> QED
    BY <2>4, <2>5, <2>8 DEF a
<1>6. all(k, e, b) = all(j, f, c)
  <2>1. NonceOf(k, e, b) = poseidonHash(Scalars(all(k, e, b)))
    BY DEF NonceOf, fields, size
  <2>2. NonceOf(j, f, c) = poseidonHash(Scalars(all(j, f, c)))
    BY DEF NonceOf, fields, size
  <2>3. Scalars(all(k, e, b)) = all(k, e, b) /\ Scalars(all(j, f, c)) = all(j, f, c)
    BY <1>5
  <2> HIDE DEF all
  <2>4. poseidonHash(Scalars(all(k, e, b))) = poseidonHash(Scalars(all(j, f, c)))
    BY <2>1, <2>2
  <2>5. poseidonHash(all(k, e, b)) = poseidonHash(all(j, f, c))
    BY <2>3, <2>4
  <2> QED
    BY <2>5 DEF poseidonHash
<1> HIDE DEF all
<1>7. e = f /\ value(b) = value(c)
  BY <1>5, <1>6
<1>8. \A i \in 1 .. (n + 1) : fields(k)[i] = fields(j)[i]
  BY <1>5, <1>6
<1>9. fields(k) = fields(j)
  <2>1. fields(k) \in [1 .. (n + 1) -> Nat] /\ fields(j) \in [1 .. (n + 1) -> Nat]
    BY <1>2
  <2> QED
    BY <1>8, <2>1, <1>1
<1>10. k = j
  <2> DEFINE x == publicKeyBytes(k)
             y == publicKeyBytes(j)
  <2>1. x \in ByteStrings(size) /\ y \in ByteStrings(size)
    BY CommittedKeys DEF size
  <2>2. padAndPackBytesWithLen(x, size) = padAndPackBytesWithLen(y, size)
    BY <1>9 DEF fields
  <2> HIDE DEF x, y
  <2>3. x = y
    BY <1>0, <2>1, <2>2, FieldsTell
  <2> QED
    BY <2>3, CommittedKeys DEF x, y
<1>11. b = c
  <2>1. BLINDER_LENGTH \in Nat
    BY BytesAssumption DEF BytesAssumption
  <2> QED
    BY <1>3, <1>7, <2>1, LowestFirst DEF value
<1> QED
  BY <1>7, <1>10, <1>11

-----------------------------------------------------------------------------
\* Digits are compared from the first that differs.
LEMMA FirstDifference ==
  ASSUME NEW b \in Nat \ {0}, NEW n \in Nat, NEW d \in Digits(b, n), NEW e \in Digits(b, n),
         NEW m \in 1 .. n, d[m] < e[m], \A i \in 1 .. (m - 1) : d[i] = e[i]
  PROVE  ValueOf(d, b) < ValueOf(e, b)
<1> DEFINE Below(k) == ValueOf(Firsts(d, k), b) < ValueOf(Firsts(e, k), b)
           T == {k \in m .. n : Below(k)}
<1>0. m \in Nat /\ m \in 1 .. n /\ m <= n
  OBVIOUS
<1>1. ASSUME NEW f \in Digits(b, n), NEW k \in 1 .. n
      PROVE  /\ Firsts(f, k - 1) \in Digits(b, k - 1)
             /\ ValueOf(Firsts(f, k - 1), b) \in Nat /\ f[k] \in 0 .. (b - 1)
             /\ ValueOf(Firsts(f, k), b) = ValueOf(Firsts(f, k - 1), b) * b + f[k]
  <2> DEFINE g == Firsts(f, k)
             l == k - 1
  <2>1. l \in Nat /\ l + 1 = k /\ k \in 1 .. k
    OBVIOUS
  <2>2. \A i \in 1 .. k : i \in 1 .. n
    OBVIOUS
  <2>3. g \in Digits(b, l + 1)
    BY <2>1, <2>2 DEF Firsts, Digits
  <2>4. Firsts(g, l) = Firsts(f, l)
    <3>1. \A i \in 1 .. l : i \in 1 .. k
      BY <2>1
    <3>2. \A i \in 1 .. l : g[i] = f[i]
      BY <3>1 DEF Firsts
    <3> QED
      BY <3>2 DEF Firsts
  <2>5. g[l + 1] = f[k]
    BY <2>1 DEF Firsts
  <2> HIDE DEF g, l
  <2>6. /\ Firsts(g, l) \in Digits(b, l) /\ g[l + 1] \in 0 .. (b - 1)
        /\ ValueOf(Firsts(g, l), b) \in Nat
        /\ ValueOf(g, b) = ValueOf(Firsts(g, l), b) * b + g[l + 1]
    BY <2>1, <2>3, OneDigit
  <2> QED
    BY <2>4, <2>5, <2>6 DEF g, l
<1>2. m \in T
  <2> DEFINE v == ValueOf(Firsts(d, m - 1), b)
  <2>1. Firsts(d, m - 1) = Firsts(e, m - 1)
    BY DEF Firsts
  <2>2. v \in Nat /\ d[m] \in 0 .. (b - 1) /\ e[m] \in 0 .. (b - 1)
    BY <1>1
  <2>3. ValueOf(Firsts(d, m), b) = v * b + d[m]
    BY <1>1
  <2>4. ValueOf(Firsts(e, m), b) = v * b + e[m]
    BY <1>1, <2>1
  <2>5. v * b \in Nat
    BY <2>2
  <2> HIDE DEF v
  <2>6. Below(m)
    BY <2>2, <2>3, <2>4, <2>5
  <2> QED
    BY <1>0, <2>6
<1>3. ASSUME NEW k \in m .. (n - 1), k \in T
      PROVE  k + 1 \in T
  <2> DEFINE v == ValueOf(Firsts(d, k), b)
             w == ValueOf(Firsts(e, k), b)
  <2>1. k + 1 \in 1 .. n /\ (k + 1) - 1 = k /\ k + 1 \in m .. n
    BY <1>0
  <2>2. v \in Nat /\ d[k + 1] \in 0 .. (b - 1) /\ ValueOf(Firsts(d, k + 1), b) = v * b + d[k + 1]
    BY <1>1, <2>1
  <2>3. w \in Nat /\ e[k + 1] \in 0 .. (b - 1) /\ ValueOf(Firsts(e, k + 1), b) = w * b + e[k + 1]
    BY <1>1, <2>1
  <2>4. v < w
    BY <1>3
  <2> HIDE DEF v, w
  <2>5. v * b \in Nat /\ w * b \in Nat /\ v * b + d[k + 1] < w * b
    BY <2>2, <2>3, <2>4, ProductFacts
  <2>6. Below(k + 1)
    BY <2>2, <2>3, <2>5
  <2> QED
    BY <2>1, <2>6
<1> HIDE DEF T
<1>4. m .. n \subseteq T
  BY <1>0, <1>2, <1>3, Induction
<1>5. Below(n)
  BY <1>0, <1>4 DEF T
<1>6. Firsts(d, n) = d /\ Firsts(e, n) = e
  BY DEF Firsts, Digits
<1> QED
  BY <1>5, <1>6

\* What isCanonicalSignature accepts is a number below the order of the group.
LEMMA CanonicalIsSmall ==
  ASSUME NEW s \in [1 .. S_LENGTH -> Bytes], isCanonicalSignature(s)
  PROVE  /\ bytesToBigIntLE(s) \in Nat /\ bytesToBigIntLE(s) < GroupOrder
         /\ s \in Digits(ByteValues, S_LENGTH)
<1> DEFINE n == S_LENGTH
           b == ByteValues
           g == DigitsOf(GroupOrder, b, n)
<1>0. n \in Nat /\ b \in Nat \ {0} /\ GroupOrder \in Nat /\ GroupOrder < Power(b, n)
  <2>1. b \in Nat \ {0} /\ n \in Nat
    BY BytesAssumption, CurveAssumption DEF BytesAssumption, CurveAssumption
  <2>2. Power(b, n) \in Nat
    BY <2>1, PowerFacts
  <2>3. GroupOrder \in 1 .. (Power(b, n) - 1)
    BY CurveAssumption DEF CurveAssumption
  <2> HIDE DEF b, n
  <2> QED
    BY <2>1, <2>2, <2>3
<1>1. s \in Digits(b, n)
  BY DEF Digits, Bytes
<1>2. g \in Digits(b, n) /\ ValueOf(g, b) = GroupOrder
  BY <1>0, DigitsOfFacts
<1>3. L = Reverse(g)
  BY DEF L
<1>4. bytesToBigIntLE(s) = ValueOf(Reverse(s), b)
  BY DEF bytesToBigIntLE
<1>5. PICK i \in DOMAIN s : s[i] < L[i] /\ \A j \in (i + 1) .. Len(s) : s[j] = L[j]
  BY DEF isCanonicalSignature
<1>6. i \in 1 .. n /\ Len(s) = n
  BY <1>0 DEF n
<1> HIDE DEF n, b, g
<1> DEFINE r == Reverse(s)
           m == n + 1 - i
<1>7. r \in Digits(b, n) /\ \A k \in 1 .. n : r[k] = s[n + 1 - k]
  BY <1>0, <1>1, Backwards
<1>8. \A k \in 1 .. n : L[k] = g[n + 1 - k]
  BY <1>0, <1>2, <1>3, Backwards
<1>9. m \in 1 .. n /\ n + 1 - m = i
  BY <1>0, <1>6
<1>10. r[m] < g[m]
  BY <1>5, <1>6, <1>7, <1>8, <1>9
<1>11. ASSUME NEW k \in 1 .. (m - 1)
       PROVE  r[k] = g[k]
  <2>1. k \in 1 .. n /\ n + 1 - k \in (i + 1) .. n /\ n + 1 - k \in 1 .. n /\ n + 1 - (n + 1 - k) = k
    BY <1>0, <1>6, <1>9
  <2>2. s[n + 1 - k] = L[n + 1 - k]
    BY <1>5, <1>6, <2>1
  <2>3. L[n + 1 - k] = g[k]
    BY <1>8, <2>1
  <2> QED
    BY <1>7, <2>1, <2>2, <2>3
<1> HIDE DEF r, m
<1>12. ValueOf(r, b) < ValueOf(g, b)
  BY <1>0, <1>2, <1>7, <1>9, <1>10, <1>11, FirstDifference
<1>13. ValueOf(r, b) \in Nat
  BY <1>0, <1>7, ValueBounds
<1> QED
  BY <1>1, <1>2, <1>4, <1>12, <1>13 DEF r, b, n

-----------------------------------------------------------------------------
\* The numbers of two paths that lead to the same key.
IsPath(path) == path \in [1 .. 5 -> [index : Nat, apostrophe : BOOLEAN]]

LEMMA PathsAreTold ==
  ASSUME NEW p, NEW q, IsPath(p), IsPath(q), In32Bits(p), In32Bits(q), NEW seed, NEW other,
         NEW scheme \in Schemes, NEW curve \in Schemes,
         scheme = "Secp256k1Ecdsa" => isValidBIP44Path(p),
         curve = "Secp256k1Ecdsa" => isValidBIP44Path(q),
         KeyOf(scheme, p, seed) = KeyOf(curve, q, other)
  PROVE  Numbers(p) = Numbers(q) /\ seed = other
<1>0. HARDENED_OFFSET \in Nat \ {0}
  BY PathsAssumption DEF PathsAssumption
<1>1. /\ DOMAIN p = 1 .. 5 /\ DOMAIN q = 1 .. 5
      /\ \A i \in 1 .. 5 : p[i].index \in Nat /\ q[i].index \in Nat
      /\ \A i \in 1 .. 5 : p[i].index < 2 * HARDENED_OFFSET /\ q[i].index < 2 * HARDENED_OFFSET
  BY DEF IsPath, In32Bits
<1>2. \A i \in 1 .. 5 : p[i].index = q[i].index => Numbers(p)[i] = Numbers(q)[i]
  BY <1>1 DEF Numbers
<1>3. CASE scheme = "Ed25519" /\ curve = "Ed25519"
  <2>1. seed = other /\ \A i \in 1 .. 5 : ChildIndex(p[i].index) = ChildIndex(q[i].index)
    BY <1>1, <1>3 DEF KeyOf, Ed25519FromDerivationPath
  <2>2. ASSUME NEW x \in Nat, NEW y \in Nat, x < 2 * HARDENED_OFFSET, y < 2 * HARDENED_OFFSET,
               ChildIndex(x) = ChildIndex(y)
        PROVE  x = y
    <3> DEFINE M == HARDENED_OFFSET
    <3>1. M \in Nat \ {0} /\ x < 2 * M /\ y < 2 * M
      BY <1>0, <2>2
    <3>2. (x + M) % (2 * M) = (y + M) % (2 * M)
      BY <2>2 DEF ChildIndex, Uint32
    <3> HIDE DEF M
    <3>3. ASSUME NEW z \in Nat, z < 2 * M
          PROVE  (z + M) % (2 * M) = IF z < M THEN z + M ELSE z - M
      <4> DEFINE w == 2 * M
      <4>1. w \in Nat \ {0} /\ z + M \in Nat /\ w = M + M
        BY <3>1
      <4>0. (z + M) % (2 * M) = (z + M) % w
        OBVIOUS
      <4> HIDE DEF w
      <4>2. z + M < w => (z + M) % w = z + M
        BY <4>1
      <4>3. ASSUME w <= z + M, z + M < 2 * w
            PROVE  (z + M) % w = (z + M) - w
        <5> DEFINE u == z + M
                   k == u \div w
                   r == u % w
        <5>1. r \in 0 .. (w - 1) /\ u = w * k + r /\ k \in Int
          BY <4>1
        <5>2. u \in Nat /\ w <= u /\ u < 2 * w
          BY <4>1, <4>3
        <5>0. (z + M) % w = r /\ z + M = u
          OBVIOUS
        <5> HIDE DEF u, k, r
        <5>3. k <= 0 => w * k <= 0
          BY <4>1, <5>1
        <5>4. k >= 2 => w * k >= w * 2
          BY <4>1, <5>1
        <5>5. w * k \in Int /\ w * 1 = w
          BY <4>1, <5>1
        <5>6. k = 1
          BY <4>1, <5>1, <5>2, <5>3, <5>4, <5>5
        <5>7. w * k = w
          BY <5>5, <5>6
        <5>8. r = u - w
          BY <4>1, <5>1, <5>2, <5>7
        <5> QED
          BY <5>0, <5>8
      <4> QED
        BY <3>1, <3>3, <4>0, <4>1, <4>2, <4>3
    <3> QED
      BY <3>1, <3>2, <3>3
  <2>3. \A i \in 1 .. 5 : p[i].index = q[i].index
    BY <1>1, <2>1, <2>2
  <2> QED
    BY <1>1, <2>1, <2>3 DEF Numbers
<1>4. CASE scheme = "Secp256k1Ecdsa" /\ curve = "Secp256k1Ecdsa"
  <2> DEFINE offset(c) == IF c.apostrophe THEN HARDENED_OFFSET ELSE 0
  <2>1. seed = other /\ \A i \in 1 .. 5 : p[i].index + offset(p[i]) = q[i].index + offset(q[i])
    BY <1>1, <1>4 DEF KeyOf, Secp256k1FromDerivationPath
  <2>2. p[1].index = q[1].index /\ p[2].index = q[2].index
    BY <1>4 DEF isValidBIP44Path, Bip44, Component
  <2>3. p[3].apostrophe /\ q[3].apostrophe /\ ~p[4].apostrophe /\ ~q[4].apostrophe /\ ~p[5].apostrophe /\ ~q[5].apostrophe
    BY <1>4 DEF isValidBIP44Path, Bip44
  <2>4. p[3].index = q[3].index /\ p[4].index = q[4].index /\ p[5].index = q[5].index
    BY <1>0, <1>1, <2>1, <2>3
  <2>5. \A i \in 1 .. 5 : p[i].index = q[i].index
    BY <2>2, <2>4
  <2> QED
    BY <1>1, <2>1, <2>5 DEF Numbers
<1>5. CASE scheme # curve
  BY <1>5 DEF KeyOf, Schemes, Ed25519FromDerivationPath, Secp256k1FromDerivationPath
<1> QED
  BY <1>3, <1>4, <1>5 DEF Schemes

-----------------------------------------------------------------------------
\* Where the things that were made come from, and how the pair, what is stored
\* of it and the JWT hang together.
MadeKey(k) == \E identity \in Identity : IsShort(identity) /\ k = [identity |-> identity, key |-> NewKeylessPublicKey(identity)]

MadeDerived(k) ==
    \E scheme \in Schemes : \E path, mnemonic :
       /\ k = [path |-> path, mnemonic |-> mnemonic, key |-> KeyOf(scheme, path, mnemonicToSeed(mnemonic))]
       /\ IsPath(path) /\ (scheme = "Secp256k1Ecdsa" => isValidBIP44Path(path))

MadeSignature(a) ==
    \E s \in [1 .. S_LENGTH -> Bytes], response \in 0 .. (GroupOrder - 1) :
       a = [s |-> s, response |-> response] /\ Verifies(s, response)

LoginInv ==
    /\ seconds \in 0 .. MaxSeconds
    /\ pair # Absent => IsPair(pair)
    /\ storage # Absent => IsStored(storage)
    /\ pair # Absent /\ storage # Absent => Stored(pair) = storage
    /\ jwtNonce # Absent =>
          /\ storage # Absent
          /\ jwtNonce = NonceOf(storage.publicKey, storage.expiryDateSecs, storage.blinder)

DerivationInv ==
    /\ \A k \in publicKeys : MadeKey(k)
    /\ \A p \in pairs : IsPair(p)
    /\ \A k \in derivedKeys : MadeDerived(k)
    /\ \A a \in accepted : MadeSignature(a)
    /\ LoginInv

LEMMA DerivationInitially == DerivationInit => DerivationInv
<1>1. MaxSeconds \in Nat
  BY PairsAssumption DEF PairsAssumption
<1> QED
  BY <1>1 DEF DerivationInit, DerivationInv, LoginInv

\* What the constructor returns is a pair.
LEMMA ConstructorMakesPairs ==
  ASSUME NEW k \in PublicKeys, NEW b \in Blinders, NEW now \in 0 .. MaxSeconds, NEW expiry,
         expiry \in Expiry \cup {Absent}
  PROVE  /\ IsPair(NewEphemeralKeyPair(k, expiry, b, now))
         /\ expiry # Absent => NewEphemeralKeyPair(k, expiry, b, now) = PairOf(k, expiry, b)
<1> DEFINE expires == IF expiry # Absent THEN expiry ELSE InTwoWeeks(now)
<1>1. /\ MaxSeconds \in Nat /\ TWO_WEEKS_IN_SECONDS \in Nat /\ Hour \in Nat \ {0}
      /\ MaxSeconds + TWO_WEEKS_IN_SECONDS < FieldOrder
  BY PairsAssumption DEF PairsAssumption
<1>2. FieldOrder \in Nat
  BY BytesAssumption DEF BytesAssumption
<1>3. InTwoWeeks(now) \in Expiry
  <2> DEFINE t == now + TWO_WEEKS_IN_SECONDS
             r == t % Hour
             d == t \div Hour
  <2>1. t \in Nat /\ t < FieldOrder
    BY <1>1, <1>2
  <2> HIDE DEF t
  <2>2. r \in 0 .. (Hour - 1) /\ t = Hour * d + r /\ d \in Nat
    BY <1>1, <2>1
  <2>3. InTwoWeeks(now) = t - r
    BY DEF InTwoWeeks, floorToWholeHour, t
  <2> HIDE DEF r, d
  <2>4. Hour * d \in Nat
    BY <1>1, <2>2
  <2>5. t - r \in Nat /\ t - r < FieldOrder
    BY <1>1, <1>2, <2>1, <2>2, <2>4
  <2> QED
    BY <2>3, <2>5 DEF Expiry
<1>4. expires \in Expiry
  BY <1>3
<1>5. NewEphemeralKeyPair(k, expiry, b, now) = PairOf(k, expires, b)
  BY DEF NewEphemeralKeyPair, PairOf, NonceOf
<1> HIDE DEF expires
<1>6. IsPair(PairOf(k, expires, b))
  BY <1>4 DEF IsPair
<1> QED
  BY <1>5, <1>6 DEF expires

LEMMA MakePublicKeyKeeps ==
  ASSUME DerivationInv, NEW identity \in Identity, CreateKeylessPublicKey(identity)
  PROVE  DerivationInv'
<1>1. MadeKey([identity |-> identity, key |-> NewKeylessPublicKey(identity)])
  BY DEF MadeKey, CreateKeylessPublicKey
<1>2. LoginInv'
  BY DEF DerivationInv, LoginInv, CreateKeylessPublicKey, pairVars
<1> QED
  BY <1>1, <1>2 DEF DerivationInv, CreateKeylessPublicKey, pairVars

LEMMA GeneratePairKeeps ==
  ASSUME DerivationInv, NEW k \in PublicKeys, NEW expiry \in ExpiryDates \cup {Absent}, NEW b \in Blinders,
         GeneratePair(k, expiry, b)
  PROVE  DerivationInv'
<1>1. expiry \in Expiry \cup {Absent}
  BY PairsAssumption DEF PairsAssumption, Expiry
<1>2. seconds \in 0 .. MaxSeconds
  BY DEF DerivationInv, LoginInv
<1>3. IsPair(NewEphemeralKeyPair(k, expiry, b, seconds))
  BY <1>1, <1>2, ConstructorMakesPairs
<1>4. IsPair(pair')
  BY <1>3 DEF GeneratePair
<1>5. LoginInv'
  BY <1>2, <1>4 DEF LoginInv, GeneratePair
<1>6. \A p \in pairs' : IsPair(p)
  BY <1>4 DEF GeneratePair, DerivationInv
<1> QED
  BY <1>5, <1>6 DEF DerivationInv, GeneratePair

LEMMA StoredPair ==
  ASSUME NEW p, IsPair(p)
  PROVE  /\ IsStored(Stored(p))
         /\ p.nonce = NonceOf(Stored(p).publicKey, Stored(p).expiryDateSecs, Stored(p).blinder)
BY DEF IsPair, PairOf, Stored, IsStored

LEMMA SerializePairKeeps == DerivationInv /\ SerializePair => DerivationInv'
<1> SUFFICES ASSUME DerivationInv, SerializePair
             PROVE  DerivationInv'
  OBVIOUS
<1>1. IsPair(pair) /\ storage' = Stored(pair) /\ pair' = pair /\ jwtNonce' = jwtNonce /\ storage = Absent
  BY DEF DerivationInv, LoginInv, SerializePair
<1>2. IsStored(storage')
  BY <1>1, StoredPair
<1>3. jwtNonce = Absent
  BY <1>1 DEF DerivationInv, LoginInv
<1>4. LoginInv'
  BY <1>1, <1>2, <1>3 DEF DerivationInv, LoginInv, SerializePair
<1> QED
  BY <1>4 DEF DerivationInv, SerializePair

LEMMA RequestJwtKeeps == DerivationInv /\ RequestJwt => DerivationInv'
<1> SUFFICES ASSUME DerivationInv, RequestJwt
             PROVE  DerivationInv'
  OBVIOUS
<1>1. /\ IsPair(pair) /\ Stored(pair) = storage /\ storage # Absent /\ IsStored(storage)
      /\ storage' = storage /\ jwtNonce' = pair.nonce /\ pair' = Absent
  BY DEF DerivationInv, LoginInv, RequestJwt
<1>2. pair.nonce = NonceOf(storage.publicKey, storage.expiryDateSecs, storage.blinder)
  BY <1>1, StoredPair
<1>3. LoginInv'
  BY <1>1, <1>2 DEF DerivationInv, LoginInv, RequestJwt
<1> QED
  BY <1>3 DEF DerivationInv, RequestJwt

\* The expiry that was stored is a number: the pair does not begin to live again.
LEMMA DeserializePairKeeps == DerivationInv /\ DeserializePair => DerivationInv'
<1> SUFFICES ASSUME DerivationInv, DeserializePair
             PROVE  DerivationInv'
  OBVIOUS
<1>1. /\ IsStored(storage) /\ storage' = storage /\ storage # Absent /\ jwtNonce' = jwtNonce
      /\ pair' = NewEphemeralKeyPair(storage.publicKey, storage.expiryDateSecs, storage.blinder, seconds)
      /\ seconds \in 0 .. MaxSeconds /\ seconds' = seconds
      /\ pairs' = pairs \cup {pair'}
  BY DEF DerivationInv, LoginInv, DeserializePair
<1>2. PICK k \in PublicKeys, e \in Expiry, b \in Blinders :
         storage = [publicKey |-> k, expiryDateSecs |-> e, blinder |-> b]
  BY <1>1 DEF IsStored
<1>3. e # Absent
  BY PairsAssumption DEF PairsAssumption, Expiry
<1>4. NewEphemeralKeyPair(k, e, b, seconds) = PairOf(k, e, b)
  BY <1>1, <1>3, ConstructorMakesPairs
<1>5. pair' = PairOf(k, e, b)
  BY <1>1, <1>2, <1>4
<1>6. IsPair(pair') /\ Stored(pair') = storage
  BY <1>2, <1>5 DEF IsPair, PairOf, Stored
<1>7. LoginInv'
  BY <1>1, <1>6 DEF DerivationInv, LoginInv
<1>8. \A p \in pairs' : IsPair(p)
  BY <1>1, <1>6 DEF DerivationInv
<1> QED
  BY <1>7, <1>8 DEF DerivationInv, DeserializePair

LEMMA FiveOf ==
  ASSUME NEW S, NEW v \in S, NEW w \in S, NEW x \in S, NEW y \in S, NEW z \in S
  PROVE  <<v, w, x, y, z>> \in [1 .. 5 -> S]
OBVIOUS

LEMMA DeriveKeeps ==
  ASSUME DerivationInv, NEW scheme \in Schemes, NEW mnemonic \in Mnemonics,
         NEW a \in Indices, NEW c \in Indices, NEW i \in Indices, NEW fourth \in BOOLEAN, NEW fifth \in BOOLEAN,
         FromDerivationPath(scheme, Path(a, c, i, fourth, fifth), mnemonic)
  PROVE  DerivationInv'
<1> DEFINE path == Path(a, c, i, fourth, fifth)
<1>0. FromDerivationPath(scheme, path, mnemonic)
  OBVIOUS
<1>1. IsPath(path)
  <2> DEFINE Components == [index : Nat, apostrophe : BOOLEAN]
  <2>1. a \in Nat /\ c \in Nat /\ i \in Nat
    BY PathsAssumption DEF PathsAssumption
  <2>2. /\ Component(44, TRUE) \in Components /\ Component(637, TRUE) \in Components
        /\ Component(a, TRUE) \in Components /\ Component(c, fourth) \in Components
        /\ Component(i, fifth) \in Components
    BY <2>1 DEF Component
  <2> DEFINE v == Component(44, TRUE)
             w == Component(637, TRUE)
             x == Component(a, TRUE)
             y == Component(c, fourth)
             z == Component(i, fifth)
  <2>0. v \in Components /\ w \in Components /\ x \in Components /\ y \in Components /\ z \in Components
    BY <2>2
  <2>4. path = <<v, w, x, y, z>>
    BY DEF Path
  <2> HIDE DEF Components, v, w, x, y, z, path
  <2>3. path \in [1 .. 5 -> Components]
    BY <2>0, <2>4, FiveOf
  <2> QED
    BY <2>3 DEF IsPath, Components
<1> HIDE DEF path
<1>2. scheme = "Secp256k1Ecdsa" => isValidBIP44Path(path)
  BY <1>0 DEF FromDerivationPath
<1>3. MadeDerived([path |-> path, mnemonic |-> mnemonic, key |-> KeyOf(scheme, path, mnemonicToSeed(mnemonic))])
  BY <1>1, <1>2 DEF MadeDerived
<1>4. LoginInv'
  BY <1>0 DEF DerivationInv, LoginInv, FromDerivationPath, pairVars
<1> QED
  BY <1>0, <1>3, <1>4 DEF DerivationInv, FromDerivationPath, pairVars

LEMMA AcceptKeeps ==
  ASSUME DerivationInv, NEW s \in [1 .. S_LENGTH -> Bytes], NEW response \in 0 .. (GroupOrder - 1),
         AcceptSignature(s, response)
  PROVE  DerivationInv'
<1>1. MadeSignature([s |-> s, response |-> response])
  BY DEF MadeSignature, AcceptSignature
<1>2. LoginInv'
  BY DEF DerivationInv, LoginInv, AcceptSignature, pairVars
<1> QED
  BY <1>1, <1>2 DEF DerivationInv, AcceptSignature, pairVars

LEMMA SecondsPassKeeps == DerivationInv /\ SecondsPass => DerivationInv'
<1> SUFFICES ASSUME DerivationInv, SecondsPass
             PROVE  DerivationInv'
  OBVIOUS
<1>1. MaxSeconds \in Nat
  BY PairsAssumption DEF PairsAssumption
<1>2. LoginInv'
  BY <1>1 DEF DerivationInv, LoginInv, SecondsPass, pairVars
<1> QED
  BY <1>2 DEF DerivationInv, SecondsPass, pairVars

LEMMA DerivationStep == DerivationInv /\ [DerivationNext]_derivationVars => DerivationInv'
<1> SUFFICES ASSUME DerivationInv, [DerivationNext]_derivationVars
             PROVE  DerivationInv'
  OBVIOUS
<1>1. CASE Make
  BY <1>1, MakePublicKeyKeeps, GeneratePairKeeps, DeriveKeeps, AcceptKeeps DEF Make
<1>2. CASE SerializePair \/ RequestJwt \/ DeserializePair \/ SecondsPass
  BY <1>2, SerializePairKeeps, RequestJwtKeeps, DeserializePairKeeps, SecondsPassKeeps
<1>3. CASE UNCHANGED derivationVars
  BY <1>3 DEF derivationVars, DerivationInv, LoginInv
<1> QED
  BY <1>1, <1>2, <1>3 DEF DerivationNext

LEMMA DerivationInvariance == DerivationSpec => []DerivationInv
  BY DerivationInitially, DerivationStep, PTL DEF DerivationSpec

\* IdentitiesHaveTheirOwnKeys, for every length of the claims within their limits,
\* every base and order of the field: two keyless public keys that are equal are of
\* one identity (computeIdCommitment).
THEOREM IdentitiesHaveTheirOwnKeysHolds == DerivationSpec => []IdentitiesHaveTheirOwnKeys
<1>1. DerivationInv => IdentitiesHaveTheirOwnKeys
  <2> SUFFICES ASSUME DerivationInv, NEW a \in publicKeys, NEW b \in publicKeys, a.key = b.key
               PROVE  /\ a.identity.iss = b.identity.iss /\ a.identity.aud = b.identity.aud
                      /\ a.identity.uidKey = b.identity.uidKey /\ a.identity.uidVal = b.identity.uidVal
                      /\ Len(a.identity.pepper) = PEPPER_LENGTH /\ Len(b.identity.pepper) = PEPPER_LENGTH
                           => a.identity.pepper = b.identity.pepper
    BY DEF IdentitiesHaveTheirOwnKeys
  <2>1. PICK x \in Identity : IsShort(x) /\ a = [identity |-> x, key |-> NewKeylessPublicKey(x)]
    BY DEF DerivationInv, MadeKey
  <2>2. PICK y \in Identity : IsShort(y) /\ b = [identity |-> y, key |-> NewKeylessPublicKey(y)]
    BY DEF DerivationInv, MadeKey
  <2>3. NewKeylessPublicKey(x) = NewKeylessPublicKey(y) /\ a.identity = x /\ b.identity = y
    BY <2>1, <2>2
  <2> QED
    BY <2>1, <2>2, <2>3, KeysTellIdentities
<1> QED
  BY <1>1, DerivationInvariance, PTL

\* NoncesBindTheirPairs: of two pairs with the same nonce the keys, the expiries and
\* the blinders are the same (constructor of EphemeralKeyPair).
THEOREM NoncesBindTheirPairsHolds == DerivationSpec => []NoncesBindTheirPairs
<1>1. DerivationInv => NoncesBindTheirPairs
  <2> SUFFICES ASSUME DerivationInv, NEW p \in pairs, NEW q \in pairs, p.nonce = q.nonce
               PROVE  p = q
    BY DEF NoncesBindTheirPairs
  <2>1. PICK k \in PublicKeys, e \in Expiry, b \in Blinders : p = PairOf(k, e, b)
    BY DEF DerivationInv, IsPair
  <2>2. PICK j \in PublicKeys, f \in Expiry, c \in Blinders : q = PairOf(j, f, c)
    BY DEF DerivationInv, IsPair
  <2>3. NonceOf(k, e, b) = NonceOf(j, f, c)
    BY <2>1, <2>2 DEF PairOf
  <2> QED
    BY <2>1, <2>2, <2>3, NonceTells
<1> QED
  BY <1>1, DerivationInvariance, PTL

\* JwtFitsThePair, for any time that passes between the request for the JWT and
\* EphemeralKeyPair.deserialize.
THEOREM JwtFitsThePairHolds == DerivationSpec => []JwtFitsThePair
<1>1. DerivationInv => JwtFitsThePair
  <2> SUFFICES ASSUME DerivationInv, pair # Absent, jwtNonce # Absent
               PROVE  pair.nonce = jwtNonce
    BY DEF JwtFitsThePair
  <2>1. IsPair(pair) /\ Stored(pair) = storage
        /\ jwtNonce = NonceOf(storage.publicKey, storage.expiryDateSecs, storage.blinder)
    BY DEF DerivationInv, LoginInv
  <2> QED
    BY <2>1, StoredPair
<1> QED
  BY <1>1, DerivationInvariance, PTL

\* PathsHaveTheirOwnKeys, for any indices: a key that both curves or two paths below
\* 2^32 would give does not exist (CKDPriv, fromDerivationPathInner).
THEOREM PathsHaveTheirOwnKeysHolds == DerivationSpec => []PathsHaveTheirOwnKeys
<1>1. DerivationInv => PathsHaveTheirOwnKeys
  <2> SUFFICES ASSUME DerivationInv, NEW a \in derivedKeys, NEW b \in derivedKeys,
                      a.key = b.key, In32Bits(a.path), In32Bits(b.path)
               PROVE  /\ Numbers(a.path) = Numbers(b.path)
                      /\ mnemonicToSeed(a.mnemonic) = mnemonicToSeed(b.mnemonic)
    BY DEF PathsHaveTheirOwnKeys
  <2>1. PICK scheme \in Schemes : \E path, mnemonic :
           /\ a = [path |-> path, mnemonic |-> mnemonic, key |-> KeyOf(scheme, path, mnemonicToSeed(mnemonic))]
           /\ IsPath(path) /\ (scheme = "Secp256k1Ecdsa" => isValidBIP44Path(path))
    BY DEF DerivationInv, MadeDerived
  <2>2. PICK curve \in Schemes : \E path, mnemonic :
           /\ b = [path |-> path, mnemonic |-> mnemonic, key |-> KeyOf(curve, path, mnemonicToSeed(mnemonic))]
           /\ IsPath(path) /\ (curve = "Secp256k1Ecdsa" => isValidBIP44Path(path))
    BY DEF DerivationInv, MadeDerived
  <2> DEFINE p == a.path
             q == b.path
             seed == mnemonicToSeed(a.mnemonic)
             other == mnemonicToSeed(b.mnemonic)
  <2>3. /\ IsPath(p) /\ (scheme = "Secp256k1Ecdsa" => isValidBIP44Path(p)) /\ In32Bits(p)
        /\ IsPath(q) /\ (curve = "Secp256k1Ecdsa" => isValidBIP44Path(q)) /\ In32Bits(q)
        /\ KeyOf(scheme, p, seed) = KeyOf(curve, q, other)
    BY <2>1, <2>2
  <2> HIDE DEF p, q, seed, other
  <2>4. Numbers(p) = Numbers(q) /\ seed = other
    BY <2>3, PathsAreTold
  <2> QED
    BY <2>4 DEF p, q, seed, other
<1> QED
  BY <1>1, DerivationInvariance, PTL

\* SignaturesAreUnique, for every order of the group and length of s: of the numbers
\* that are equal modulo the order isCanonicalSignature takes one.
THEOREM SignaturesAreUniqueHolds == DerivationSpec => []SignaturesAreUnique
<1>1. DerivationInv => SignaturesAreUnique
  <2> SUFFICES ASSUME DerivationInv, NEW a \in accepted, NEW b \in accepted, a.response = b.response
               PROVE  a.s = b.s
    BY DEF SignaturesAreUnique
  <2>1. ASSUME NEW c \in accepted
        PROVE  /\ bytesToBigIntLE(c.s) = c.response
               /\ c.s \in Digits(ByteValues, S_LENGTH)
    <3>1. PICK s \in [1 .. S_LENGTH -> Bytes], response \in 0 .. (GroupOrder - 1) :
             c = [s |-> s, response |-> response] /\ Verifies(s, response)
      BY DEF DerivationInv, MadeSignature
    <3> DEFINE v == bytesToBigIntLE(s)
    <3>2. v \in Nat /\ v < GroupOrder /\ s \in Digits(ByteValues, S_LENGTH)
      BY <3>1, CanonicalIsSmall DEF Verifies
    <3>3. v % GroupOrder = response
      BY <3>1 DEF Verifies, SolvesFor
    <3>4. GroupOrder \in Nat \ {0}
      BY CurveAssumption DEF CurveAssumption
    <3> HIDE DEF v
    <3>5. v = response
      BY <3>2, <3>3, <3>4
    <3> QED
      BY <3>1, <3>2, <3>5 DEF v
  <2>2. S_LENGTH \in Nat
    BY CurveAssumption DEF CurveAssumption
  <2> DEFINE x == a.s
             y == b.s
  <2>3. x \in Digits(ByteValues, S_LENGTH) /\ y \in Digits(ByteValues, S_LENGTH)
        /\ bytesToBigIntLE(x) = bytesToBigIntLE(y)
    BY <2>1
  <2> HIDE DEF x, y
  <2>4. x = y
    BY <2>2, <2>3, LowestFirst
  <2> QED
    BY <2>4 DEF x, y
<1> QED
  BY <1>1, DerivationInvariance, PTL

\* No key has two origins, be it an identity or a path.
THEOREM KeysHaveOneOriginHolds == DerivationSpec => []KeysHaveOneOrigin
<1>1. IdentitiesHaveTheirOwnKeys /\ PathsHaveTheirOwnKeys => KeysHaveOneOrigin
  BY DEF KeysHaveOneOrigin
<1> QED
  BY <1>1, IdentitiesHaveTheirOwnKeysHolds, PathsHaveTheirOwnKeysHolds, PTL

\* The pair, the nonce and the JWT of a login belong together to its end.
THEOREM LoginsKeepTheirPairsHolds == DerivationSpec => []LoginsKeepTheirPairs
<1>1. NoncesBindTheirPairs /\ JwtFitsThePair => LoginsKeepTheirPairs
  BY DEF LoginsKeepTheirPairs
<1> QED
  BY <1>1, NoncesBindTheirPairsHolds, JwtFitsThePairHolds, PTL
=============================================================================
