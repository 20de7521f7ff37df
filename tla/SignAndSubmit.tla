---------------------------- MODULE SignAndSubmit ---------------------------
(***************************************************************************)
(* signAndSubmitTransaction (internal/transactionSubmission.ts) with       *)
(* signers that hold keyless accounts: a KeylessAccount itself, a          *)
(* MultiKeyAccount and a MultiAuthKeyAccount over keyless and other        *)
(* signers. Signing is synchronous: every signer of an account signs in    *)
(* the same step, and the first that throws ends the call.                 *)
(***************************************************************************)
EXTENDS KeylessAccount, FiniteSets

CONSTANTS Plain,      \* signers that need no proof
          KeyIndex,   \* the position of each public key in the MultiKey
          MaxSigners, \* bound: signers of one account
          Null

ASSUME PlainAssumption == Plain \cap Signers = {}
ASSUME IndexAssumption ==
    /\ KeyIndex \in [Signers \cup Plain -> Nat]
    /\ \A k, m \in Signers \cup Plain : KeyIndex[k] = KeyIndex[m] => k = m
ASSUME BoundAssumption == MaxSigners \in Nat

VARIABLES
    at,        \* the await a call is suspended on
    kind,      \* the class of its signer
    signers,   \* the signers that sign, in order
    unproven,  \* the signers whose promise it still awaits
    outcome,   \* what it returned or threw, or Null
    signedAt   \* history: when the transaction was signed

callVars == <<at, kind, signers, unproven, outcome, signedAt>>
vars == <<accountVars, callVars>>

Kinds == {"KeylessAccount", "MultiKeyAccount", "MultiAuthKeyAccount"}

\* The classes signAndSubmitTransaction waits for.
Awaited == {"KeylessAccount", "MultiKeyAccount"}

Members == Signers \cup Plain

SignErrors == {"Proof not found", "EphemeralKeyPair is expired", "Expecting n signatures"}

Outcomes == SignErrors \cup {"submitted", "fetch failed", "request failed"}

ASSUME NullAssumption == Null \notin Outcomes

CallTypeOK ==
    /\ at \in [Calls -> {"idle", "waiting", "posting", "done"}]
    /\ kind \in [Calls -> Kinds]
    /\ DOMAIN signers = Calls
    /\ unproven \in [Calls -> SUBSET Signers]
    /\ outcome \in [Calls -> Outcomes \cup {Null}]
    /\ signedAt \in [Calls -> Nat]

TypeOK ==
    /\ AccountTypeOK
    /\ CallTypeOK
    /\ signers \in [Calls -> Seq(Members)]

Init ==
    /\ AccountInit
    /\ at = [c \in Calls |-> "idle"]
    /\ kind = [c \in Calls |-> "KeylessAccount"]
    /\ signers = [c \in Calls |-> <<>>]
    /\ unproven = [c \in Calls |-> {}]
    /\ outcome = [c \in Calls |-> Null]
    /\ signedAt = [c \in Calls |-> 0]
-----------------------------------------------------------------------------
Keyless(list) == {list[i] : i \in DOMAIN list} \cap Signers

\* Mutant: the signers of a MultiKeyAccount stay in the order they were given.
Sorted_AsGiven(list) == list

\* The constructor of MultiKeyAccount: the signers in the order of their keys.
InKeyOrder(list) ==
    \A i, j \in DOMAIN list : i < j => KeyIndex[list[i]] < KeyIndex[list[j]]

Sorted(list) ==
    CHOOSE sorted \in [DOMAIN list -> {list[i] : i \in DOMAIN list}] : InKeyOrder(sorted)

\* The 32-bit bitmap of createBitmap, as the set of its bits. A bit beyond the
\* four bytes is written outside the array, which has no effect.
Bitmap(list) == {KeyIndex[list[i]] : i \in DOMAIN list} \cap (0 .. 31)

\* The signers that throw, by their place in the list.
Throwing(list) ==
    {i \in DOMAIN list : list[i] \in Signers /\ (~proof[list[i]] \/ isExpired(list[i]))}

\* A call ends.
End(c, how) ==
    /\ at' = [at EXCEPT ![c] = "done"]
    /\ outcome' = [outcome EXCEPT ![c] = how]

\* MultiKeySignature counts the signatures against the bits.
BitsFit(how, list) == how = "MultiKeyAccount" => Cardinality(Bitmap(list)) = Len(list)

\* The signers sign one after the other. The transaction is posted, or the
\* first that throws ends the call, or the signatures do not fit the bitmap.
Sign(c, how, list) ==
    \/ /\ Throwing(list) = {}
       /\ BitsFit(how, list)
       /\ at' = [at EXCEPT ![c] = "posting"]
       /\ signedAt' = [signedAt EXCEPT ![c] = clock]
       /\ UNCHANGED outcome
    \/ /\ \E i \in Throwing(list) :
             /\ \A j \in Throwing(list) : i <= j
             /\ End(c, IF ~proof[list[i]] THEN "Proof not found" ELSE "EphemeralKeyPair is expired")
       /\ UNCHANGED signedAt
    \/ /\ Throwing(list) = {}
       /\ ~BitsFit(how, list)
       /\ End(c, "Expecting n signatures")
       /\ UNCHANGED signedAt

\* Mutant: waitForProofFetch awaits no signer.
Promises_None(list) == {}

\* The promises that waitForProofFetch awaits.
Promises(list) == {k \in Keyless(list) : proofOrPromise[k] = "promise"}

\* The lists of distinct signers that an account of class `how` can hold.
SignerLists(how) ==
    {list \in UNION {[1 .. n -> Members] : n \in 1 .. MaxSigners} :
        /\ \A i, j \in DOMAIN list : list[i] = list[j] => i = j
        /\ how = "KeylessAccount" => Len(list) = 1 /\ list[1] \in Signers}

\* signAndSubmitTransaction up to its first await, once the application has the
\* keyless accounts among the signers.
signAndSubmitTransaction(c, how, given) ==
    LET list == IF how = "MultiKeyAccount" THEN Sorted(given) ELSE given
    IN  /\ at[c] = "idle"
        /\ \A k \in Keyless(list) : account[k] = "ready"
        /\ kind' = [kind EXCEPT ![c] = how]
        /\ signers' = [signers EXCEPT ![c] = list]
        /\ \/ /\ how \in Awaited
              /\ at' = [at EXCEPT ![c] = "waiting"]
              /\ unproven' = [unproven EXCEPT ![c] = Promises(list)]
              /\ reactions' = [k \in Signers |-> IF k \in Promises(list)
                                                 THEN Append(reactions[k], c) ELSE reactions[k]]
              /\ UNCHANGED <<outcome, signedAt>>
           \/ /\ how \notin Awaited
              /\ Sign(c, how, list)
              /\ UNCHANGED <<unproven, reactions>>
        /\ UNCHANGED <<account, expiryDateSecs, fetch, promise, proofOrPromise, proof, told, clock>>

unchangedByProof ==
    <<kind, signers, signedAt, account, expiryDateSecs, fetch, promise,
      proofOrPromise, proof, told, clock>>

\* Mutant: a call waits for the event, which is "Success" only, and no error.
ProofFetched_IgnoreFailure(c, k) ==
    /\ NextReaction(k, c)
    /\ unproven' = [unproven EXCEPT ![c] = IF promise[k] = "fulfilled" THEN @ \ {k} ELSE @]
    /\ UNCHANGED <<at, outcome>>
    /\ UNCHANGED unchangedByProof

\* A proof a call awaits is there; or its fetch failed, which ends the call
\* unless another failure did before.
ProofFetched(c, k) ==
    /\ NextReaction(k, c)
    /\ unproven' = [unproven EXCEPT ![c] = @ \ {k}]
    /\ \/ promise[k] = "rejected" /\ at[c] = "waiting" /\ End(c, "fetch failed")
       \/ ~(promise[k] = "rejected" /\ at[c] = "waiting") /\ UNCHANGED <<at, outcome>>
    /\ UNCHANGED unchangedByProof

\* Every proof is there: the call signs.
SignWaited(c) ==
    /\ at[c] = "waiting"
    /\ unproven[c] = {}
    /\ Sign(c, kind[c], signers[c])
    /\ UNCHANGED <<kind, signers, unproven, accountVars>>

\* The node answers the submission, or the request fails.
Posted(c) ==
    /\ at[c] = "posting"
    /\ \E how \in {"submitted", "request failed"} : End(c, how)
    /\ UNCHANGED <<kind, signers, unproven, signedAt, accountVars>>
-----------------------------------------------------------------------------
Derive(k) ==
    \E expiry \in Expiries, withCallback, configured \in BOOLEAN :
       deriveKeylessAccount(k, expiry, withCallback, configured)

\* The steps of a keyless account beside those of the calls.
AccountStep(k) == ConfigArrives(k) \/ ProofArrives(k) \/ init(k) \/ Derived(k)

Call(c) == (\E k \in Signers : ProofFetched(c, k)) \/ SignWaited(c) \/ Posted(c)

Next ==
    \/ \E k \in Signers : (Derive(k) \/ AccountStep(k)) /\ UNCHANGED callVars
    \/ \E c \in Calls, how \in Kinds :
          \E given \in SignerLists(how) : signAndSubmitTransaction(c, how, given)
    \/ \E c \in Calls : Call(c)
    \/ Tick /\ UNCHANGED callVars

\* Requests end, in an answer or in an error, and reactions run.
Fairness ==
    /\ \A k \in Signers : WF_vars(AccountStep(k) /\ UNCHANGED callVars)
    /\ \A c \in Calls : WF_vars(Call(c))

Spec == Init /\ [][Next]_vars
FairSpec == Spec /\ Fairness
-----------------------------------------------------------------------------
\* A call that waits for its proofs finds them: KeylessAccount.init began to
\* await the promise before any call could, so it stores the proof first. Only
\* an account that is not waited for fails for want of a proof.
WaitedProofIsThere ==
    \A c \in Calls : outcome[c] = "Proof not found" => kind[c] \notin Awaited

\* What the invariant above needs to be inductive: a call that waits has the
\* proofs of all signers but those it still awaits, and none that goes on has
\* an outcome.
WaitingShape ==
    \A c \in Calls :
       /\ at[c] = "done" \/ outcome[c] = Null
       /\ at[c] = "waiting" =>
             /\ kind[c] \in Awaited
             /\ \A k \in Keyless(signers[c]) : k \in unproven[c] \/ proof[k]

IInv ==
    /\ AccountTypeOK /\ CallTypeOK /\ FetchShape /\ WaitingShape
    /\ WaitedProofIsThere /\ CallbackIsToldTheTruth

\* What is submitted was signed by keys that were alive, each with a proof, and
\* the signatures of a MultiKeyAccount are in the order of the bits of its
\* bitmap, which is how the chain pairs them with the keys.
SubmittedIsSigned ==
    \A c \in Calls : at[c] = "posting" \/ outcome[c] = "submitted" =>
       /\ \A k \in Keyless(signers[c]) : proof[k] /\ signedAt[c] <= expiryDateSecs[k]
       /\ kind[c] = "MultiKeyAccount" =>
             \A i \in DOMAIN signers[c] :
                /\ KeyIndex[signers[c][i]] \in Bitmap(signers[c])
                /\ Cardinality({b \in Bitmap(signers[c]) : b < KeyIndex[signers[c][i]]}) = i - 1

\* Every call returns or throws, also when a proof never comes.
CallsEnd == \A c \in Calls : (at[c] # "idle") ~> (at[c] = "done")
=============================================================================
