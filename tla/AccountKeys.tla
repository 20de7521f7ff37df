----------------------------- MODULE AccountKeys -----------------------------
(***************************************************************************)
(* The calls of the SDK that depend on what the chain says of an account:  *)
(* building and submitting a transaction (generateRawTransaction's         *)
(* sequence number), rotateAuthKey, lookupOriginalAccountAddress and       *)
(* deriveAccountFromPrivateKey.  Each awaits several answers, and other    *)
(* calls change the account in between.                                    *)
(*                                                                         *)
(* The chain is external and modelled from what these calls rely on: an    *)
(* account has a sequence number and an authentication key, an address     *)
(* starts as the authentication key it was derived from, and the address   *)
(* map keeps the address of every key that was rotated to.                 *)
(***************************************************************************)
EXTENDS Integers, FiniteSets

CONSTANTS Users,      \* calls under way at a time
          Keys,       \* Ed25519 private keys
          MaxNumber,  \* bound: transactions executed for an account
          MaxAccounts,  \* bound: accounts on chain
          Unset

\* AuthenticationKey.fromPublicKey of the legacy Ed25519 key and of the same key
\* as an AnyPublicKey.
Legacy(k) == <<"legacy", k>>
Single(k) == <<"single", k>>
AuthKeys == {Legacy(k) : k \in Keys} \cup {Single(k) : k \in Keys}
Accounts == [number : Nat, key : AuthKeys]

ASSUME KeysAssumption ==
    /\ MaxNumber \in Nat /\ MaxAccounts \in Nat
    /\ Unset \notin AuthKeys /\ Unset \notin Accounts

VARIABLES account,   \* for each address: [number, key], or Unset
          original,  \* the address map: for each authentication key, an address or Unset
          user       \* for each caller: its call

keysVars == <<account, original, user>>

Resting == [pc |-> "idle", op |-> Unset, address |-> Unset, signer |-> Unset, new |-> Unset,
            sponsored |-> FALSE, challenge |-> Unset, number |-> Unset, found |-> Unset,
            outcome |-> Unset, overtaken |-> FALSE, known |-> {}]

KeysInit ==
    /\ account = [a \in AuthKeys |-> Unset]
    /\ original = [a \in AuthKeys |-> Unset]
    /\ user = [u \in Users |-> Resting]

\* lookupOriginalAccountAddress: a key that is not in the table was never rotated.
OriginalOf(authKey) == IF original[authKey] = Unset THEN authKey ELSE original[authKey]
Known == {authKey \in AuthKeys : account[OriginalOf(authKey)] # Unset}

Room(a) == account[a] # Unset \/ Cardinality({b \in AuthKeys : account[b] # Unset}) < MaxAccounts

\* What a call knew and no property looks at is forgotten when it ends.
Ended(call, outcome) == [call EXCEPT !.pc = "done", !.outcome = outcome, !.challenge = Unset,
                                     !.found = Unset]
Ends(u, outcome) == user' = [user EXCEPT ![u] = Ended(@, outcome)]
Unchanged == UNCHANGED <<account, original>>
-----------------------------------------------------------------------------
(* Building a transaction and submitting it. *)

\* generateTransaction for an account whose key the caller has.  Without an
\* account on chain the caller can only be sponsored.
BeginSend(u, a, sponsored) ==
    /\ user[u].pc = "idle"
    /\ account[a] # Unset \/ (sponsored /\ Room(a))
    /\ user' = [user EXCEPT ![u] = [Resting EXCEPT !.pc = "number", !.op = "send", !.address = a,
                   !.signer = IF account[a] = Unset THEN a ELSE account[a].key,
                   !.sponsored = sponsored]]
    /\ Unchanged

Numbered(u, number) == user' = [user EXCEPT ![u].number = number, ![u].pc = "submit"]

\* getSequenceNumberForAny: a 404 of getInfo is a new account, with number 0.
getSequenceNumber(u) ==
    /\ user[u].pc = "number"
    /\ Numbered(u, IF account[user[u].address] = Unset THEN 0 ELSE account[user[u].address].number)
    /\ Unchanged

\* Any other error of getInfo: it is thrown, and taken for a 0 if a fee payer is
\* to be set later (feePayerAddress is the ZERO address).
getSequenceNumber_Fails(u) ==
    /\ user[u].pc = "number"
    /\ \/ user[u].sponsored /\ Numbered(u, 0)
       \/ ~user[u].sponsored /\ Ends(u, "threw")
    /\ Unchanged

Accepted(u) ==
    LET call == user[u] IN
    IF account[call.address] = Unset THEN call.number = 0 /\ call.signer = call.address
    ELSE /\ call.number = account[call.address].number
         /\ call.signer = account[call.address].key

\* A transaction of the account was executed: the calls of others on it are overtaken.
Marked(u, outcome, known) ==
    user' = [v \in Users |->
        IF v = u THEN Ended(user[v], outcome)
        ELSE [user[v] EXCEPT !.overtaken = @ \/ user[v].address = user[u].address,
                             !.known = @ \cap known]]

NumberOf(a) == IF account[a] = Unset THEN 0 ELSE account[a].number
KeyOf(a) == IF account[a] = Unset THEN a ELSE account[a].key

\* External: the node refuses a number or a key that is not the account's, and
\* otherwise executes the transaction, creating the account if there was none.
Submit(u) ==
    LET a == user[u].address IN
    /\ user[u].pc = "submit" /\ user[u].op = "send"
    /\ \/ ~Accepted(u) /\ Ends(u, "refused") /\ UNCHANGED account
       \/ /\ Accepted(u) /\ NumberOf(a) < MaxNumber /\ Room(a)
          /\ account' = [account EXCEPT ![a] = [number |-> NumberOf(a) + 1, key |-> KeyOf(a)]]
          /\ Marked(u, "executed", AuthKeys)
    /\ UNCHANGED original
\* The request that submits it fails.
SubmitFails(u) ==
    /\ user[u].pc = "submit"
    /\ Ends(u, "threw")
    /\ Unchanged
-----------------------------------------------------------------------------
(* rotateAuthKey. *)

BeginRotation(u, a, k) ==
    /\ user[u].pc = "idle" /\ account[a] # Unset
    /\ user' = [user EXCEPT ![u] = [Resting EXCEPT !.pc = "info", !.op = "rotate", !.address = a,
                   !.signer = account[a].key, !.new = Legacy(k)]]
    /\ Unchanged

\* Mutant: the address is taken for the current authentication key.
rotateAuthKey_Address(u) ==
    /\ user[u].pc = "info"
    /\ user' = [user EXCEPT ![u].pc = "number", ![u].challenge =
                   [number |-> account[user[u].address].number, key |-> user[u].address]]
    /\ Unchanged

\* getInfo, and the RotationProofChallenge that both keys sign.  The transaction
\* that carries the proof is then built with a sequence number of its own read.
rotateAuthKey(u) ==
    /\ user[u].pc = "info"
    /\ user' = [user EXCEPT ![u].challenge = account[user[u].address], ![u].pc = "number"]
    /\ Unchanged

rotateAuthKey_Fails(u) ==
    /\ user[u].pc = "info"
    /\ Ends(u, "threw")
    /\ Unchanged

\* External: the entry function checks the proof against the account as it is,
\* and lets no key be the current key of two addresses.  An aborted transaction
\* still uses up its number.
SubmitRotation(u) ==
    LET a == user[u].address
        new == user[u].new
        now == account[a]
    IN  /\ user[u].pc = "submit" /\ user[u].op = "rotate"
        /\ \/ ~Accepted(u) /\ Ends(u, "refused") /\ UNCHANGED <<account, original>>
           \/ /\ Accepted(u) /\ now.number < MaxNumber /\ original[new] # Unset
              /\ account' = [account EXCEPT ![a].number = @ + 1]
              /\ Marked(u, "aborted: key in use", AuthKeys) /\ UNCHANGED original
           \/ /\ Accepted(u) /\ now.number < MaxNumber /\ original[new] = Unset
              /\ user[u].challenge # now
              /\ account' = [account EXCEPT ![a].number = @ + 1]
              /\ Marked(u, "aborted", AuthKeys) /\ UNCHANGED original
           \/ /\ Accepted(u) /\ now.number < MaxNumber /\ original[new] = Unset
              /\ user[u].challenge = now
              /\ account' = [account EXCEPT ![a] = [number |-> now.number + 1, key |-> new]]
              /\ original' = [original EXCEPT ![now.key] = Unset, ![new] = a]
              /\ Marked(u, "executed", Known')
-----------------------------------------------------------------------------
(* deriveAccountFromPrivateKey. *)

BeginDerive(u, k) ==
    /\ user[u].pc = "idle"
    /\ user' = [user EXCEPT ![u] = [Resting EXCEPT !.pc = "lookup", !.op = "derive", !.new = k,
                   !.signer = Single(k), !.known = Known]]
    /\ Unchanged

\* isAccountExist, first await: the original address of the authentication key.
lookupOriginalAccountAddress(u) ==
    /\ user[u].pc = "lookup"
    /\ user' = [user EXCEPT ![u].found = OriginalOf(user[u].signer), ![u].pc = "exists"]
    /\ Unchanged

Derived(u) ==
    user' = [user EXCEPT ![u] = [Ended(@, "derived") EXCEPT !.address = user[u].signer]]

\* Mutant: every error of getInfo is taken for a 404.
isAccountExist_NoError(u) ==
    LET call == user[u] IN
    /\ call.pc = "exists"
    /\ \/ account[call.found] # Unset /\ Derived(u)
       \/ /\ call.signer = Single(call.new)
          /\ user' = [user EXCEPT ![u].signer = Legacy(call.new), ![u].pc = "lookup"]
       \/ call.signer = Legacy(call.new) /\ Ends(u, "cannot derive")
    /\ Unchanged

\* isAccountExist, second await: getInfo of that address.  The account returned
\* has the address derived from the key, not the one that was looked up; after
\* the single-sender key comes the legacy key, and after that an error.
isAccountExist(u) ==
    LET call == user[u] IN
    /\ call.pc = "exists"
    /\ \/ account[call.found] # Unset /\ Derived(u)
       \/ /\ account[call.found] = Unset /\ call.signer = Single(call.new)
          /\ user' = [user EXCEPT ![u].signer = Legacy(call.new), ![u].pc = "lookup"]
       \/ /\ account[call.found] = Unset /\ call.signer = Legacy(call.new)
          /\ Ends(u, "cannot derive")
    /\ Unchanged

\* An error other than the two that mean "not there" is thrown.
derive_Fails(u) ==
    /\ user[u].pc \in {"lookup", "exists"}
    /\ Ends(u, "threw")
    /\ Unchanged
-----------------------------------------------------------------------------
ReturnCall(u) ==
    /\ user[u].pc = "done"
    /\ user' = [user EXCEPT ![u] = Resting]
    /\ Unchanged

\* External: somebody creates the account of a key.
Create(a) ==
    /\ account[a] = Unset /\ Room(a)
    /\ account' = [account EXCEPT ![a] = [number |-> 0, key |-> a]]
    /\ UNCHANGED <<original, user>>

KeysNext ==
    \/ \E u \in Users :
          \/ \E a \in AuthKeys, sponsored \in BOOLEAN : BeginSend(u, a, sponsored)
          \/ \E a \in AuthKeys, k \in Keys : BeginRotation(u, a, k)
          \/ \E k \in Keys : BeginDerive(u, k)
          \/ getSequenceNumber(u) \/ getSequenceNumber_Fails(u)
          \/ rotateAuthKey(u) \/ rotateAuthKey_Fails(u)
          \/ lookupOriginalAccountAddress(u) \/ isAccountExist(u) \/ derive_Fails(u)
          \/ Submit(u) \/ SubmitRotation(u) \/ SubmitFails(u)
          \/ ReturnCall(u)
    \/ \E a \in AuthKeys : Create(a)

KeysSpec == KeysInit /\ [][KeysNext]_keysVars
-----------------------------------------------------------------------------
CallRecords ==
    [pc : {"idle", "info", "number", "submit", "lookup", "exists", "done"},
     op : {"send", "rotate", "derive", Unset},
     address : AuthKeys \cup {Unset}, signer : AuthKeys \cup {Unset},
     new : Keys \cup AuthKeys \cup {Unset}, sponsored : BOOLEAN,
     challenge : Accounts \cup {Unset}, number : Nat \cup {Unset},
     found : AuthKeys \cup {Unset},
     outcome : {"executed", "refused", "aborted", "aborted: key in use", "derived",
                "cannot derive", "threw", Unset},
     overtaken : BOOLEAN, known : SUBSET AuthKeys]

KeysTypeOK ==
    /\ account \in [AuthKeys -> Accounts \cup {Unset}]
    /\ original \in [AuthKeys -> AuthKeys \cup {Unset}]
    /\ user \in [Users -> CallRecords]

\* A transaction or a rotation whose key was the account's when it began fails on
\* chain only if another transaction of the account came in between, or if a
\* sponsored one took an error of getInfo for a new account.
RefusedOnlyWhenOvertaken ==
    \A u \in Users :
        user[u].pc = "done" /\ user[u].outcome \in {"refused", "aborted"} =>
            user[u].overtaken \/ (user[u].sponsored /\ user[u].number = 0)

\* deriveAccountFromPrivateKey falls back to the legacy account only if the
\* single-sender one was not there all along, and fails only if neither was; an
\* error of the node is never taken for absence.
DeriveResolvesTheScheme ==
    \A u \in Users :
        user[u].pc = "done" /\ user[u].op = "derive" =>
            LET k == user[u].new IN
            /\ user[u].outcome = "derived" /\ user[u].address = Legacy(k)
                 => Single(k) \notin user[u].known
            /\ user[u].outcome = "cannot derive" => {Legacy(k), Single(k)} \cap user[u].known = {}

\* Doc of deriveAccountFromPrivateKey: the authentication key is looked up on
\* chain and the account is derived from what was found there.
DerivedAccountExists ==
    \A u \in Users :
        user[u].pc = "done" /\ user[u].outcome = "derived" => account[user[u].address] # Unset
=============================================================================
