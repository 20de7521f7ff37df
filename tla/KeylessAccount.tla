--------------------------- MODULE KeylessAccount ---------------------------
(***************************************************************************)
(* Keyless signers: deriveKeylessAccount and getProof (internal/keyless.ts *)
(* ) and the proof of a KeylessAccount (account/KeylessAccount.ts), which  *)
(* may be fetched in the background.                                       *)
(*                                                                         *)
(* The coroutines that await the promise of a proof are its reactions, in  *)
(* the order in which they began to; once it is settled they run one by    *)
(* one in that order.  "init" is KeylessAccount.init, "derive" is          *)
(* deriveKeylessAccount without a callback; the others are calls that wait *)
(* for the proof to sign with it.                                          *)
(***************************************************************************)
EXTENDS Naturals, Sequences

CONSTANTS Signers,            \* the keyless accounts of the application
          Calls,              \* the calls that wait for a proof
          maxExpHorizonSecs,  \* how long an ephemeral key may live
          Expiries,           \* when the ephemeral keys can expire
          MaxClock            \* bound: time passes up to here

ASSUME CallsAssumption == Calls \cap {"init", "derive"} = {}
ASSUME TimesAssumption ==
    maxExpHorizonSecs \in Nat /\ Expiries \subseteq Nat /\ MaxClock \in Nat

VARIABLES
    account,          \* deriveKeylessAccount: not called, running, or its end
    expiryDateSecs,   \* of the ephemeral key pair
    fetch,            \* what getProof is suspended on
    promise,          \* the promise getProof returned
    reactions,        \* the coroutines that await it
    proofOrPromise,   \* what the field holds: a proof, a promise, or nothing yet
    proof,            \* this.proof is defined
    told,             \* history: the statuses proofFetchCallback was called with
    clock             \* Date.now()

accountVars == <<account, expiryDateSecs, fetch, promise, reactions,
                 proofOrPromise, proof, told, clock>>

AccountTypeOK ==
    /\ account \in [Signers -> {"none", "deriving", "ready", "failed"}]
    /\ expiryDateSecs \in [Signers -> Nat]
    /\ fetch \in [Signers -> {"none", "config", "prove", "settled"}]
    /\ promise \in [Signers -> {"none", "pending", "fulfilled", "rejected"}]
    /\ reactions \in [Signers -> Seq(Calls \cup {"init", "derive"})]
    /\ proofOrPromise \in [Signers -> {"none", "proof", "promise"}]
    /\ proof \in [Signers -> BOOLEAN]
    /\ told \in [Signers -> Seq({"Success", "Failed"})]
    /\ clock \in Nat

AccountInit ==
    /\ account = [k \in Signers |-> "none"]
    /\ expiryDateSecs = [k \in Signers |-> 0]
    /\ fetch = [k \in Signers |-> "none"]
    /\ promise = [k \in Signers |-> "none"]
    /\ reactions = [k \in Signers |-> <<>>]
    /\ proofOrPromise = [k \in Signers |-> "none"]
    /\ proof = [k \in Signers |-> FALSE]
    /\ told = [k \in Signers |-> <<>>]
    /\ clock = 0
-----------------------------------------------------------------------------
isExpired(k) == clock > expiryDateSecs[k]

\* getProof goes on to its request `where`, or its promise is settled.
Fetch(k, where, state) ==
    /\ fetch' = [fetch EXCEPT ![k] = where]
    /\ promise' = [promise EXCEPT ![k] = state]

\* The test of the key's lifetime, once the horizon is known.
RequestProof(k, expiry) ==
    \/ maxExpHorizonSecs < expiry - clock /\ Fetch(k, "settled", "rejected")
    \/ maxExpHorizonSecs >= expiry - clock /\ Fetch(k, "prove", "pending")

\* deriveKeylessAccount with a key that expires at `expiry`, with or without a
\* callback, and with a configured horizon or one that must be read. With a
\* callback the account is there at once and init awaits the proof.
deriveKeylessAccount(k, expiry, withCallback, configured) ==
    /\ account[k] = "none"
    /\ expiryDateSecs' = [expiryDateSecs EXCEPT ![k] = expiry]
    /\ \/ configured /\ RequestProof(k, expiry)
       \/ ~configured /\ Fetch(k, "config", "pending")
    /\ \/ /\ withCallback
          /\ account' = [account EXCEPT ![k] = "ready"]
          /\ proofOrPromise' = [proofOrPromise EXCEPT ![k] = "promise"]
          /\ reactions' = [reactions EXCEPT ![k] = <<"init">>]
       \/ /\ ~withCallback
          /\ account' = [account EXCEPT ![k] = "deriving"]
          /\ reactions' = [reactions EXCEPT ![k] = <<"derive">>]
          /\ UNCHANGED proofOrPromise
    /\ UNCHANGED <<proof, told, clock>>

unchangedByFetch ==
    <<account, expiryDateSecs, reactions, proofOrPromise, proof, told, clock>>

\* getKeylessConfig returns the horizon, or fails.
ConfigArrives(k) ==
    /\ fetch[k] = "config"
    /\ RequestProof(k, expiryDateSecs[k]) \/ Fetch(k, "settled", "rejected")
    /\ UNCHANGED unchangedByFetch

\* The proving service returns a proof, which getProof signs with the ephemeral
\* key: an expired one throws. Or the request fails.
ProofArrives(k) ==
    /\ fetch[k] = "prove"
    /\ \/ ~isExpired(k) /\ Fetch(k, "settled", "fulfilled")
       \/ Fetch(k, "settled", "rejected")
    /\ UNCHANGED unchangedByFetch

\* The first reaction of the settled promise runs.
NextReaction(k, who) ==
    /\ promise[k] \in {"fulfilled", "rejected"}
    /\ reactions[k] # <<>>
    /\ Head(reactions[k]) = who
    /\ reactions' = [reactions EXCEPT ![k] = Tail(@)]

\* Mutant: the failure is emitted as a success.
init_ToldSuccess(k) ==
    /\ NextReaction(k, "init")
    /\ proof' = [proof EXCEPT ![k] = promise[k] = "fulfilled"]
    /\ told' = [told EXCEPT ![k] = Append(@, "Success")]
    /\ UNCHANGED <<account, expiryDateSecs, fetch, promise, proofOrPromise, clock>>

\* init: store the proof and tell the callback.
init(k) ==
    /\ NextReaction(k, "init")
    /\ proof' = [proof EXCEPT ![k] = promise[k] = "fulfilled"]
    /\ told' = [told EXCEPT ![k] =
                   Append(@, IF promise[k] = "fulfilled" THEN "Success" ELSE "Failed")]
    /\ UNCHANGED <<account, expiryDateSecs, fetch, promise, proofOrPromise, clock>>

\* deriveKeylessAccount without a callback: it creates the account, or throws.
Derived(k) ==
    /\ NextReaction(k, "derive")
    /\ \/ /\ promise[k] = "fulfilled"
          /\ account' = [account EXCEPT ![k] = "ready"]
          /\ proofOrPromise' = [proofOrPromise EXCEPT ![k] = "proof"]
          /\ proof' = [proof EXCEPT ![k] = TRUE]
       \/ /\ promise[k] = "rejected"
          /\ account' = [account EXCEPT ![k] = "failed"]
          /\ UNCHANGED <<proofOrPromise, proof>>
    /\ UNCHANGED <<expiryDateSecs, fetch, promise, told, clock>>

Tick ==
    /\ clock < MaxClock
    /\ clock' = clock + 1
    /\ UNCHANGED <<account, expiryDateSecs, fetch, promise, reactions,
                   proofOrPromise, proof, told>>
-----------------------------------------------------------------------------
\* init has not run yet.
InitPending(k) == reactions[k] # <<>> /\ reactions[k][1] = "init"

\* The callback is called once, after the fetch has ended, and what it is told
\* is so: with "Success" the account can sign, with "Failed" it never can.
CallbackIsToldTheTruth ==
    \A k \in Signers :
       /\ Len(told[k]) <= 1
       /\ told[k] = <<"Success">> <=> proofOrPromise[k] = "promise" /\ proof[k]
       /\ told[k] = <<"Failed">> => promise[k] = "rejected" /\ ~proof[k]

\* What the invariants need to be inductive: init is the first to await the
\* promise of a background fetch, and only calls come after it; what happened
\* to the proof follows from whether it has run and how the promise settled.
BackgroundFetch(k) ==
    /\ account[k] = "ready"
    /\ promise[k] # "none"
    /\ \A i \in 1 .. Len(reactions[k]) :
          reactions[k][i] \in Calls \/ (i = 1 /\ reactions[k][i] = "init")
    /\ promise[k] = "pending" => InitPending(k)
    /\ InitPending(k) => ~proof[k] /\ told[k] = <<>>
    /\ ~InitPending(k) /\ promise[k] = "fulfilled" => proof[k] /\ told[k] = <<"Success">>
    /\ ~InitPending(k) /\ promise[k] = "rejected" => ~proof[k] /\ told[k] = <<"Failed">>

AwaitedFetch(k) ==
    /\ reactions[k] \in {<<>>, <<"derive">>}
    /\ reactions[k] = <<"derive">> => account[k] = "deriving"
    /\ told[k] = <<>>
    /\ account[k] = "ready" <=> proof[k]
    /\ proof[k] <=> proofOrPromise[k] = "proof"

FetchShapeOf(k) ==
    /\ fetch[k] \in {"config", "prove"} <=> promise[k] = "pending"
    /\ account[k] = "none" => reactions[k] = <<>>
    /\ proofOrPromise[k] = "promise" => BackgroundFetch(k)
    /\ proofOrPromise[k] # "promise" => AwaitedFetch(k)

FetchShape == \A k \in Signers : FetchShapeOf(k)
=============================================================================
