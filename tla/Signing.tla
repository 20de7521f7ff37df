------------------------------ MODULE Signing ------------------------------
(***************************************************************************)
(* One transaction, from the program that generates it through those that  *)
(* sign it to the one that simulates or submits it.  Each program holds a  *)
(* copy, which travels as bytes (ObjectsSurviveTheWire of WireFormats says *)
(* that the bytes carry all of it); within a program everybody shares one  *)
(* object, and Sign.transactionAsFeePayer writes to it.  Authenticators    *)
(* are passed around freely and never get lost.                            *)
(***************************************************************************)
EXTENDS Accounts

CONSTANTS
  People,          \* the accounts of the chain
  Clients,         \* programs
  Generator,       \* the one of them that generates the transaction
  Drafts,          \* what is generated: [sender, secondary, withFeePayer]
  ZERO,            \* AccountAddress.ZERO, the place of a fee payer yet unknown
  MaxSignatures    \* how many authenticators are made

VARIABLES
  generated,        \* the transaction as it was generated
  copy,             \* copy[c]: the transaction as program c has it
  authenticators,   \* made so far: [as, authenticator]
  sponsors,         \* the addresses that transactionAsFeePayer wrote
  submission        \* what the simulation or submission came to

signingVars == <<generated, copy, authenticators, sponsors, submission>>

NoOutcome == [kind |-> "none"]
Threw == [kind |-> "threw"]

SigningInit ==
  /\ generated = Nothing
  /\ copy = [c \in Clients |-> Nothing]
  /\ authenticators = {}
  /\ sponsors = {}
  /\ submission = NoOutcome

Addresses == {p.accountAddress : p \in People}

buildRawTransaction(sender, secondary, withFeePayer) ==
  [sender |-> sender, secondarySignerAddresses |-> secondary,
   feePayerAddress |-> IF withFeePayer THEN ZERO ELSE Nothing]

(* The accounts are what the constructors make (ConstructorsMakeAccounts): *)
(* no account's address is ZERO, and none is undefined.                    *)
ASSUME SigningAssumption ==
  /\ \A p \in People : IsAccount(p)
  /\ Nothing \notin Addresses \cup {ZERO} /\ ZERO \notin Addresses

(* Lists of at most two.                                                   *)
Few(S) == {<<>>} \cup {<<x>> : x \in S} \cup {<<x, y>> : x, y \in S}

generateTransaction(c) ==
  /\ generated = Nothing
  /\ \E d \in Drafts : generated' = buildRawTransaction(d.sender, d.secondary, d.withFeePayer)
  /\ copy' = [copy EXCEPT ![c] = generated']
  /\ UNCHANGED <<authenticators, sponsors, submission>>

Working(c) == copy[c] # Nothing /\ submission = NoOutcome

(* The transaction's bytes go from one program to another.                 *)
Pass(c, d) ==
  /\ Working(c) /\ c # d
  /\ copy' = [copy EXCEPT ![d] = copy[c]]
  /\ UNCHANGED <<generated, authenticators, sponsors, submission>>

Secondary(t) == IF t.secondarySignerAddresses = Nothing THEN <<>> ELSE t.secondarySignerAddresses

(* The fields that the signing message hashes (HashInputsDiffer of         *)
(* WireFormats is about the bytes).                                        *)
SigningMessage(t) ==
  [type |-> IF t.feePayerAddress # Nothing THEN "FeePayerRawTransaction"
            ELSE IF t.secondarySignerAddresses # Nothing THEN "MultiAgentRawTransaction"
            ELSE "RawTransaction",
   sender |-> t.sender, secondary |-> Secondary(t), feePayer |-> t.feePayerAddress]

MoreSignatures == Cardinality(authenticators) < MaxSignatures

Collect(as, p, t) ==
  authenticators' = authenticators
    \cup {[as |-> as, authenticator |-> signWithAuthenticator(p, SigningMessage(t))]}

(* A bound: only the accounts that the transaction names sign as signers.  *)
(* Nobody has a use for the signature of another one.                      *)
IsNamed(p) ==
  \/ p.accountAddress = generated.sender
  \/ \E i \in DOMAIN Secondary(generated) : p.accountAddress = Secondary(generated)[i]

transaction(c, p) ==
  /\ Working(c) /\ MoreSignatures /\ IsNamed(p)
  /\ Collect("signer", p, copy[c])
  /\ UNCHANGED <<generated, copy, sponsors, submission>>

(* Mutant: the message is taken before the address is set.                 *)
transactionAsFeePayer_SignsFirst(c, p) ==
  /\ Working(c) /\ MoreSignatures
  /\ copy[c].feePayerAddress # Nothing
  /\ copy' = [copy EXCEPT ![c].feePayerAddress = p.accountAddress]
  /\ sponsors' = sponsors \cup {p.accountAddress}
  /\ Collect("feePayer", p, copy[c])
  /\ UNCHANGED <<generated, submission>>

(* It throws, and changes nothing, if the transaction is not sponsored.    *)
transactionAsFeePayer(c, p) ==
  /\ Working(c) /\ MoreSignatures
  /\ copy[c].feePayerAddress # Nothing
  /\ copy' = [copy EXCEPT ![c].feePayerAddress = p.accountAddress]
  /\ sponsors' = sponsors \cup {p.accountAddress}
  /\ Collect("feePayer", p, copy'[c])
  /\ UNCHANGED <<generated, submission>>

-----------------------------------------------------------------------------
(* A signed transaction.                                                   *)

SignedTransaction(t, class, sender, secondary, feePayer) ==
  [transaction |-> t, class |-> class, sender |-> sender, secondary |-> secondary,
   feePayer |-> feePayer]

FeePayerAuthenticator(t, sender, secondary, feePayer) ==
  SignedTransaction(t, "FeePayer", sender, secondary, feePayer)
MultiAgentAuthenticator(t, sender, secondary) ==
  SignedTransaction(t, "MultiAgent", sender, secondary, Nothing)

(* Nothing where the code throws.                                          *)
generateSignedTransaction(t, sender, additional, feePayer) ==
  IF t.feePayerAddress # Nothing
    THEN IF feePayer = Nothing THEN Nothing
         ELSE FeePayerAuthenticator(t, sender, IF additional = Nothing THEN <<>> ELSE additional, feePayer)
    ELSE IF t.secondarySignerAddresses # Nothing
      THEN IF additional = Nothing THEN Nothing ELSE MultiAgentAuthenticator(t, sender, additional)
      ELSE SignedTransaction(t, IF sender.class = "AccountAuthenticatorEd25519" THEN "Ed25519" ELSE "SingleSender",
                             sender, <<>>, Nothing)

(* ValidateFeePayerDataOnSubmission and ...OnSimulation.                   *)
LacksFeePayer(t, given) == t.feePayerAddress # Nothing /\ given = Nothing

(* What a submission was made of is kept, to be compared with its outcome. *)
submitTransaction(t, sender, additional, feePayer) ==
  LET signed == generateSignedTransaction(t, sender.authenticator,
                  IF additional = Nothing THEN Nothing
                  ELSE [i \in DOMAIN additional |-> additional[i].authenticator],
                  IF feePayer = Nothing THEN Nothing ELSE feePayer.authenticator)
  IN  submission' = IF signed = Nothing THEN Threw
                 ELSE [kind |-> "submitted", signed |-> signed, sender |-> sender,
                       secondary |-> IF additional = Nothing THEN <<>> ELSE additional,
                       feePayer |-> feePayer]

simple(c) ==
  /\ Working(c)
  /\ \E sender \in authenticators, feePayer \in authenticators \cup {Nothing} :
       IF LacksFeePayer(copy[c], feePayer) THEN submission' = Threw
       ELSE submitTransaction(copy[c], sender, Nothing, feePayer)
  /\ UNCHANGED <<generated, copy, authenticators, sponsors>>

multiAgent(c) ==
  /\ Working(c)
  /\ \E sender \in authenticators, additional \in Few(authenticators),
        feePayer \in authenticators \cup {Nothing} :
       IF LacksFeePayer(copy[c], feePayer) THEN submission' = Threw
       ELSE submitTransaction(copy[c], sender, additional, feePayer)
  /\ UNCHANGED <<generated, copy, authenticators, sponsors>>

(* The authenticators of single signers become one of their keys.          *)
Joined(parts) ==
  [as |-> IF \A i \in DOMAIN parts : parts[i].as = "signer" THEN "signer" ELSE "feePayer",
   authenticator |->
     Authenticator("AccountAuthenticatorMultiAuthKey",
       PublicKey("MultiAuthKeyPublicKey",
                 [i \in DOMAIN parts |-> parts[i].authenticator.publicKey.keys[1]], Len(parts)),
       [i \in DOMAIN parts |-> parts[i].authenticator.signatures[1]])]

(* A sponsored transaction is refused: the decorator looks for an          *)
(* authenticator that this method does not take.                           *)
multiAuthKey(c) ==
  /\ Working(c)
  /\ \E parts \in Few({x \in authenticators : DOMAIN x.authenticator.signatures = {1}}) :
       IF LacksFeePayer(copy[c], Nothing) THEN submission' = Threw
       ELSE submitTransaction(copy[c], Joined(parts), Nothing, Nothing)
  /\ UNCHANGED <<generated, copy, authenticators, sponsors>>

(* The proofs of keyless signers are awaited first (SignAndSubmit).        *)
signAndSubmit(c, p) ==
  /\ Working(c)
  /\ submitTransaction(copy[c],
       [as |-> "signer", authenticator |-> signWithAuthenticator(p, SigningMessage(copy[c]))],
       Nothing, Nothing)
  /\ UNCHANGED <<generated, copy, authenticators, sponsors>>

-----------------------------------------------------------------------------
(* Simulation: signatures of zeros in the place of real ones.              *)

Zeros == Signature(Nothing, Nothing)

(* Nothing where the code throws: any other key is read as an Ed25519 key, *)
(* which its length gives away.                                            *)
getAuthenticatorForSimulation(publicKey) ==
  CASE publicKey.class = "Ed25519PublicKey" ->
         Authenticator("AccountAuthenticatorEd25519", publicKey, [i \in {1} |-> Zeros])
    [] publicKey.class = "AnyPublicKey" /\ publicKey.keys[1].curve # "Keyless" ->
         Authenticator("AccountAuthenticatorSingleKey", publicKey, [i \in {1} |-> Zeros])
    [] publicKey.class = "KeylessPublicKey" ->
         Authenticator("AccountAuthenticatorSingleKey", AnyPublicKey(publicKey.keys[1]), [i \in {1} |-> Zeros])
    [] OTHER -> Nothing

forSimulation(publicKeys) == [i \in DOMAIN publicKeys |-> getAuthenticatorForSimulation(publicKeys[i])]
AnyThrows(list) == \E i \in DOMAIN list : list[i] = Nothing

(* Mutant: the keys of the secondary signers are left out when there is a  *)
(* fee payer.                                                              *)
generateSignedTransactionForSimulation_NoSecondary(t, signer, secondary, feePayer) ==
  LET sender == getAuthenticatorForSimulation(signer)
      others == IF secondary = Nothing THEN <<>> ELSE forSimulation(secondary)
  IN  IF sender = Nothing THEN Nothing
      ELSE IF t.feePayerAddress # Nothing
        THEN IF AnyThrows(Append(others, getAuthenticatorForSimulation(feePayer))) THEN Nothing
             ELSE FeePayerAuthenticator(t, sender, <<>>, getAuthenticatorForSimulation(feePayer))
        ELSE IF t.secondarySignerAddresses # Nothing
          THEN IF secondary = Nothing \/ AnyThrows(others) THEN Nothing
               ELSE MultiAgentAuthenticator(t, sender, others)
          ELSE SignedTransaction(t, IF sender.class = "AccountAuthenticatorEd25519" THEN "Ed25519"
                                    ELSE "SingleSender", sender, <<>>, Nothing)

generateSignedTransactionForSimulation(t, signer, secondary, feePayer) ==
  LET sender == getAuthenticatorForSimulation(signer)
      others == IF secondary = Nothing THEN <<>> ELSE forSimulation(secondary)
  IN  IF sender = Nothing THEN Nothing
      ELSE IF t.feePayerAddress # Nothing
        THEN IF AnyThrows(Append(others, getAuthenticatorForSimulation(feePayer))) THEN Nothing
             ELSE FeePayerAuthenticator(t, sender, others, getAuthenticatorForSimulation(feePayer))
        ELSE IF t.secondarySignerAddresses # Nothing
          THEN IF secondary = Nothing \/ AnyThrows(others) THEN Nothing
               ELSE MultiAgentAuthenticator(t, sender, others)
          ELSE SignedTransaction(t, IF sender.class = "AccountAuthenticatorEd25519" THEN "Ed25519"
                                    ELSE "SingleSender", sender, <<>>, Nothing)

(* An authenticator that names an address in the place of a key.           *)
Mock(address) == Authenticator("AccountAuthenticatorMock", PublicKey("AccountAddress", address, 0), <<>>)

generateMockSignedTransactionForSimulation(t) ==
  LET sender == Mock(t.sender)
      others == [i \in DOMAIN Secondary(t) |-> Mock(Secondary(t)[i])]
  IN  IF t.feePayerAddress # Nothing
        THEN FeePayerAuthenticator(t, sender, others, Mock(t.feePayerAddress))
        ELSE IF t.secondarySignerAddresses # Nothing
          THEN MultiAgentAuthenticator(t, sender, others)
          ELSE SignedTransaction(t, "SingleSender", sender, <<>>, Nothing)

(* A bound: a simulation reads no authenticator, so that it is enough to   *)
(* have it happen before the signers sign.                                 *)
BeforeSigners == \A x \in authenticators : x.as = "feePayer"

(* The people whose keys are given stand beside the outcome.               *)
simulateTransaction(t, sender, secondary, feePayer) ==
  LET keys   == IF secondary = Nothing THEN Nothing
                ELSE [i \in DOMAIN secondary |-> secondary[i].publicKey]
      signed == generateSignedTransactionForSimulation(t, sender.publicKey, keys,
                  IF feePayer = Nothing THEN Nothing ELSE feePayer.publicKey)
  IN  submission' = IF signed = Nothing THEN Threw
                 ELSE [kind |-> "simulated", signed |-> signed, sender |-> sender,
                       secondary |-> secondary, feePayer |-> feePayer]

simulate(c) ==
  /\ Working(c) /\ BeforeSigners
  /\ \E sender \in People, secondary \in {Nothing} \cup Few(People), feePayer \in People \cup {Nothing} :
       IF LacksFeePayer(copy[c], feePayer) THEN submission' = Threw
       ELSE simulateTransaction(copy[c], sender, secondary, feePayer)
  /\ UNCHANGED <<generated, copy, authenticators, sponsors>>

mockTransaction(t) ==
  submission' = [kind |-> "mocked", signed |-> generateMockSignedTransactionForSimulation(t)]

(* A sponsored transaction is refused here too.                            *)
mock(c) ==
  /\ Working(c) /\ BeforeSigners
  /\ IF LacksFeePayer(copy[c], Nothing) THEN submission' = Threw ELSE mockTransaction(copy[c])
  /\ UNCHANGED <<generated, copy, authenticators, sponsors>>

SigningNext ==
  \/ generateTransaction(Generator)
  \/ \E c \in Clients :
    \/ \E d \in Clients : Pass(c, d)
    \/ \E p \in People : transaction(c, p)
    \/ \E p \in People : transactionAsFeePayer(c, p)
    \/ simple(c)
    \/ multiAgent(c)
    \/ multiAuthKey(c)
    \/ \E p \in People : signAndSubmit(c, p)
    \/ simulate(c)
    \/ mock(c)

SigningSpec == SigningInit /\ [][SigningNext]_signingVars

-----------------------------------------------------------------------------
(* The node.                                                               *)

(* The authenticator is of the account at an address, signed by enough of  *)
(* its keys, and every signature is over one of the messages.              *)
IsOf(authenticator, address) ==
  \E p \in People :
    /\ p.accountAddress = address
    /\ Normalized(p.publicKey) = authenticator.publicKey

Enough(authenticator) ==
  Cardinality(DOMAIN authenticator.signatures) >= authenticator.publicKey.required

Signs(authenticator, messages) ==
  \A i \in DOMAIN authenticator.signatures :
    \E message \in messages :
      authenticator.signatures[i] = Signature(authenticator.publicKey.keys[i], message)

(* Whoever is not the fee payer may have signed before it was known.       *)
MessagesFor(t) ==
  {SigningMessage(t)}
    \cup IF t.feePayerAddress = Nothing THEN {} ELSE {SigningMessage([t EXCEPT !.feePayerAddress = ZERO])}

NodeAccepts(signed) ==
  LET t == signed.transaction
  IN  /\ IsOf(signed.sender, t.sender) /\ Enough(signed.sender)
      /\ Signs(signed.sender, MessagesFor(t))
      /\ DOMAIN signed.secondary = DOMAIN Secondary(t)
      /\ \A i \in DOMAIN signed.secondary :
           /\ IsOf(signed.secondary[i], Secondary(t)[i]) /\ Enough(signed.secondary[i])
           /\ Signs(signed.secondary[i], MessagesFor(t))
      /\ t.feePayerAddress # Nothing =>
           /\ IsOf(signed.feePayer, t.feePayerAddress) /\ Enough(signed.feePayer)
           /\ Signs(signed.feePayer, {SigningMessage(t)})

-----------------------------------------------------------------------------

(* What a submission needs from the outside: an authenticator of the right *)
(* account in each place, made by the method for that place.               *)
Fits(x, as, address) == x.as = as /\ IsOf(x.authenticator, address) /\ Enough(x.authenticator)

RightParties(o) ==
  LET t == o.signed.transaction
  IN  /\ Fits(o.sender, "signer", t.sender)
      /\ DOMAIN o.secondary = DOMAIN Secondary(t)
      /\ \A i \in DOMAIN o.secondary : Fits(o.secondary[i], "signer", Secondary(t)[i])
      /\ t.feePayerAddress # Nothing => Fits(o.feePayer, "feePayer", t.feePayerAddress)

(* Whichever program submits, in whatever order the sender, the secondary  *)
(* signers and the fee payer have signed, and whether they signed before   *)
(* or after the fee payer put its address in the object they share: the    *)
(* node accepts what the right accounts signed, unless a second fee payer  *)
(* took the place of a first.                                              *)
SubmittedVerifies ==
  submission.kind = "submitted" /\ RightParties(submission) /\ (\A a, b \in sponsors : a = b) =>
    NodeAccepts(submission.signed)

(* A simulated transaction is what a submission by the same accounts would *)
(* be but for the signatures, none of which can be valid: the same kind of *)
(* authenticator with the same keys in every place.                        *)
Unsigned(authenticator) == [class |-> authenticator.class, publicKey |-> authenticator.publicKey]
Shape(signed) ==
  [transaction |-> signed.transaction, class |-> signed.class, sender |-> Unsigned(signed.sender),
   secondary |-> [i \in DOMAIN signed.secondary |-> Unsigned(signed.secondary[i])],
   feePayer |-> IF signed.feePayer = Nothing THEN Nothing ELSE Unsigned(signed.feePayer)]

SimulationMirrorsSubmission ==
  /\ submission.kind = "simulated" =>
       LET t == submission.signed.transaction
           By(p) == signWithAuthenticator(p, SigningMessage(t))
           real == generateSignedTransaction(t, By(submission.sender),
                     IF submission.secondary = Nothing THEN Nothing
                     ELSE [i \in DOMAIN submission.secondary |-> By(submission.secondary[i])],
                     IF submission.feePayer = Nothing THEN Nothing ELSE By(submission.feePayer))
       IN  real # Nothing /\ Shape(submission.signed) = Shape(real) /\ ~NodeAccepts(submission.signed)
  /\ submission.kind = "mocked" =>
       LET signed == submission.signed
       IN  /\ DOMAIN signed.secondary = DOMAIN Secondary(signed.transaction)
           /\ ~NodeAccepts(signed)

(* What an account can be asked to verify: signatures of any of the        *)
(* accounts' keys, over the transaction as it was generated or with the    *)
(* address of a fee payer f, put together in any way that the class of its *)
(* signature allows.                                                       *)
Messages(f) ==
  {SigningMessage(generated)}
    \cup IF generated.feePayerAddress = Nothing THEN {}
         ELSE {SigningMessage([generated EXCEPT !.feePayerAddress = f.accountAddress])}

KeysAt(p, positions) == {p.publicKey.keys[i] : i \in positions}
MadeOver(messages) ==
  {Signature(key, message) : key \in UNION {KeysAt(p, DOMAIN p.publicKey.keys) : p \in People}, message \in messages}

PutTogether(p, made) ==
  CASE p.class = "MultiKeyAccount" -> UNION {[bits -> made] : bits \in SUBSET DOMAIN p.publicKey.keys}
    [] p.class = "MultiAuthKeyAccount" -> UNION {[1..n -> made] : n \in 0..(Len(p.publicKey.keys) + 1)}
    [] p.class = "KeylessAccount" -> [{1} -> {s \in made : s.key.curve = "Keyless"}]
    [] OTHER -> [{1} -> made]

(* Whether an account can call anything valid: a keyless account not after *)
(* its time, and another one not if it has a keyless signer.               *)
CanTell(p, isExpired) ==
  CASE p.class = "KeylessAccount" -> ~isExpired
    [] p.class = "Ed25519Account" -> TRUE
    [] OTHER -> \A key \in KeysAt(p, p.bits) : key.curve # "Keyless"

(* Who calls a signature valid had every part of it made over that message *)
(* by one of its own signers, and parts of a multi-key signature are those *)
(* of as many signers: whoever counts them against signaturesRequired,     *)
(* which verifySignature does not, counts signers.  Of a signature with    *)
(* the bitmap of its own signers an account says what the node would say,  *)
(* its own signature included, as far as it can tell.                      *)
(*                                                                         *)
(* A bound: a verdict does not depend on what has been signed already, so  *)
(* that it is asked before.                                                *)
VerdictsAreRight ==
  generated # Nothing /\ authenticators = {} =>
    \A f, p \in People, isExpired \in BOOLEAN :
      \A message \in Messages(f), at \in PutTogether(p, MadeOver(Messages(f))) :
        LET verdict == verifySignature(p, message, [class |-> p.signature, at |-> at], isExpired)
        IN  /\ verdict = "yes" =>
                 /\ \A i \in DOMAIN at : at[i].over = message /\ at[i].key \in KeysAt(p, p.bits)
                 /\ p.class = "MultiKeyAccount" => \A i, j \in DOMAIN at : at[i] = at[j] => i = j
            /\ DOMAIN at = p.bits =>
                 (verdict = "yes" <=>
                    /\ CanTell(p, isExpired)
                    /\ Signs(Authenticator(p.authenticator, p.publicKey, at), {message}))
=============================================================================
