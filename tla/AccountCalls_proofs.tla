------------------------- MODULE AccountCalls_proofs -------------------------
(***************************************************************************)
(* Proofs about the calls of an account.  AccountKeys, for any number of   *)
(* callers, keys and accounts: why a transaction or a rotation is refused, *)
(* and what the derivation of an account from a private key finds.         *)
(* MemoizedReads, for any callers, reads, time to live and latency: how    *)
(* old an answer from the cache can be.  AnsNames, for any names, calls    *)
(* and calendar: what its calls make of names that change meanwhile.       *)
(* AddressText, for any bases and length: what is read of an address that  *)
(* is printed, and of what somebody types.                                 *)
(***************************************************************************)
EXTENDS AccountKeys, MemoizedReads, AnsNames, AddressText, Induction, TLAPS

\* What a call that builds a transaction or a rotation knows, as long as no other
\* transaction of the account was executed: the account's key, what the rotation's
\* challenge says of it, and its number (or the 0 that stands for an error).
UpToDate(mine) ==
    /\ mine.pc \in {"info", "number", "submit"} =>
          mine.op \in {"send", "rotate"} /\ mine.address \in AuthKeys
    /\ mine.pc = "info" => mine.op = "rotate"
    /\ mine.pc = "submit" => mine.number \in Nat
    /\ ~mine.overtaken /\ mine.op = "send" /\ mine.pc \in {"number", "submit"} =>
          /\ mine.signer = KeyOf(mine.address)
          /\ mine.pc = "submit" =>
                mine.number = NumberOf(mine.address) \/ (mine.sponsored /\ mine.number = 0)
    /\ mine.op = "rotate" /\ mine.pc \in {"info", "number", "submit"} =>
          account[mine.address] # Unset /\ ~mine.sponsored /\ mine.new \in AuthKeys
    /\ ~mine.overtaken /\ mine.op = "rotate" /\ mine.pc \in {"info", "number", "submit"} =>
          /\ mine.signer = account[mine.address].key
          /\ mine.pc # "info" => mine.challenge = account[mine.address]
          /\ mine.pc = "submit" => mine.number = account[mine.address].number
    /\ mine.pc = "done" /\ mine.outcome \in {"refused", "aborted"} =>
          mine.overtaken \/ (mine.sponsored /\ mine.number = 0)

\* What a derivation knows: its first answers said that there is no single-sender
\* account when it asks for the legacy one.
Resolves(mine) ==
    /\ mine.pc \in {"lookup", "exists"} =>
          /\ mine.op = "derive" /\ mine.new \in Keys
          /\ mine.signer \in {Single(mine.new), Legacy(mine.new)}
          /\ mine.signer = Legacy(mine.new) => Single(mine.new) \notin mine.known
    /\ mine.pc = "exists" =>
          mine.found \in AuthKeys /\ (mine.signer \in mine.known => account[mine.found] # Unset)
    /\ mine.op # "derive" => mine.known = {}
    /\ mine.known \subseteq Known
    /\ mine.pc = "done" /\ mine.op = "derive" =>
          /\ mine.outcome = "derived" /\ mine.address = Legacy(mine.new)
               => Single(mine.new) \notin mine.known
          /\ mine.outcome = "cannot derive" =>
               {Legacy(mine.new), Single(mine.new)} \cap mine.known = {}

KeysInv ==
    /\ KeysTypeOK
    /\ \A u \in Users : UpToDate(user[u]) /\ Resolves(user[u])
\* What is on chain stays there: a key that is known stays known unless a rotation
\* moves an address.
LEMMA KnownStays ==
  ASSUME KeysTypeOK, original' = original, account' \in [AuthKeys -> Accounts \cup {Unset}],
         \A a \in AuthKeys : account[a] # Unset => account'[a] # Unset
  PROVE  Known \subseteq Known'
<1> SUFFICES ASSUME NEW k \in AuthKeys, account[OriginalOf(k)] # Unset
             PROVE  account'[OriginalOf(k)'] # Unset
  BY DEF Known
<1>1. OriginalOf(k) \in AuthKeys
  BY DEF OriginalOf, KeysTypeOK
<1>2. OriginalOf(k)' = OriginalOf(k)
  BY DEF OriginalOf
<1> QED BY <1>1, <1>2

\* A step of one call that leaves the chain alone.
LEMMA OneCall ==
  ASSUME KeysInv, NEW u \in Users, Unchanged,
         \E mine \in CallRecords :
            /\ user' = [user EXCEPT ![u] = mine]
            /\ UpToDate(mine) /\ Resolves(mine)
  PROVE  KeysInv'
<1>1. PICK mine \in CallRecords : /\ user' = [user EXCEPT ![u] = mine]
                                  /\ UpToDate(mine) /\ Resolves(mine)
  OBVIOUS
<1>2. KeysTypeOK'
  BY <1>1 DEF KeysInv, KeysTypeOK, Unchanged
<1>3. ASSUME NEW v \in Users
      PROVE  UpToDate(user[v])' /\ Resolves(user[v])'
  <2>1. /\ v = u => user'[v] = mine
        /\ v # u => user'[v] = user[v]
    BY <1>1 DEF KeysInv, KeysTypeOK
  <2>2. UpToDate(user'[v]) /\ Resolves(user'[v])
    BY <1>1, <2>1 DEF KeysInv
  <2>3. account' = account /\ original' = original
    BY DEF Unchanged
  <2> QED BY <2>2, <2>3 DEF UpToDate, Resolves, KeyOf, NumberOf, Known, OriginalOf
<1> QED BY <1>2, <1>3 DEF KeysInv

\* The invariant holds initially.
LEMMA KeysInitially == KeysInit => KeysInv
<1> SUFFICES ASSUME KeysInit PROVE KeysInv
  OBVIOUS
<1>1. Resting \in CallRecords
  BY DEF Resting, CallRecords
<1>2. KeysTypeOK
  BY <1>1 DEF KeysTypeOK, KeysInit
<1>3. ASSUME NEW u \in Users PROVE UpToDate(user[u]) /\ Resolves(user[u])
  BY DEF KeysInit, UpToDate, Resolves, Resting
<1> QED BY <1>2, <1>3 DEF KeysInv

\* What a stored account is.
LEMMA StoredAccount ==
  ASSUME KeysTypeOK, NEW a \in AuthKeys
  PROVE  /\ account[a] \in Accounts \cup {Unset}
         /\ account[a] # Unset => account[a].number \in Nat /\ account[a].key \in AuthKeys
         /\ NumberOf(a) \in Nat /\ KeyOf(a) \in AuthKeys
<1>1. account[a] \in Accounts \cup {Unset}
  BY DEF KeysTypeOK
<1>2. account[a] # Unset => account[a].number \in Nat /\ account[a].key \in AuthKeys
  BY <1>1 DEF Accounts
<1>3. CASE account[a] = Unset
  BY <1>1, <1>3 DEF NumberOf, KeyOf
<1>4. CASE account[a] # Unset
  BY <1>1, <1>2, <1>4 DEF NumberOf, KeyOf
<1> QED BY <1>3, <1>4

\* The number that is read is the account's.
LEMMA getSequenceNumber_Keeps ==
  ASSUME KeysInv, NEW u \in Users, getSequenceNumber(u)
  PROVE  KeysInv'
<1> DEFINE mine == [user[u] EXCEPT !.pc = "submit",
                     !.number = IF account[user[u].address] = Unset THEN 0
                                ELSE account[user[u].address].number]
<1>1. user[u] \in CallRecords /\ UpToDate(user[u]) /\ Resolves(user[u])
  BY DEF KeysInv, KeysTypeOK
<1>2. user' = [user EXCEPT ![u] = mine] /\ Unchanged
  BY <1>1 DEF KeysInv, KeysTypeOK, CallRecords, getSequenceNumber, Numbered
<1>a. user[u].address \in AuthKeys /\ user[u].address # Unset
  BY <1>1, KeysAssumption DEF UpToDate, getSequenceNumber, Numbered
<1>b. /\ account[user[u].address] \in Accounts \cup {Unset}
      /\ account[user[u].address] # Unset =>
            account[user[u].address].number \in Nat /\ account[user[u].address].key \in AuthKeys
      /\ NumberOf(user[u].address) \in Nat /\ KeyOf(user[u].address) \in AuthKeys
  BY <1>a, StoredAccount DEF KeysInv
<1>3. mine \in CallRecords
  BY <1>1, <1>a, <1>b DEF CallRecords, getSequenceNumber, Numbered
<1>4. UpToDate(mine)
  BY <1>1, <1>a, <1>b DEF UpToDate, CallRecords, getSequenceNumber, Numbered, NumberOf
<1>5. Resolves(mine)
  BY <1>1, <1>a, <1>b DEF Resolves, CallRecords, getSequenceNumber, Numbered
<1> HIDE DEF mine
<1> QED BY <1>2, <1>3, <1>4, <1>5, OneCall

\* The challenge is the account as it is.
LEMMA rotateAuthKey_Keeps ==
  ASSUME KeysInv, NEW u \in Users, rotateAuthKey(u)
  PROVE  KeysInv'
<1> DEFINE mine == [user[u] EXCEPT !.challenge = account[user[u].address], !.pc = "number"]
<1>1. user[u] \in CallRecords /\ UpToDate(user[u]) /\ Resolves(user[u])
  BY DEF KeysInv, KeysTypeOK
<1>2. user' = [user EXCEPT ![u] = mine] /\ Unchanged
  BY <1>1 DEF KeysInv, KeysTypeOK, CallRecords, rotateAuthKey
<1>a. user[u].address \in AuthKeys /\ user[u].address # Unset
  BY <1>1, KeysAssumption DEF UpToDate, rotateAuthKey
<1>b. /\ account[user[u].address] \in Accounts \cup {Unset}
      /\ account[user[u].address] # Unset =>
            account[user[u].address].number \in Nat /\ account[user[u].address].key \in AuthKeys
      /\ NumberOf(user[u].address) \in Nat /\ KeyOf(user[u].address) \in AuthKeys
  BY <1>a, StoredAccount DEF KeysInv
<1>3. mine \in CallRecords
  BY <1>1, <1>a, <1>b DEF CallRecords, rotateAuthKey
<1>4. UpToDate(mine)
  BY <1>1, <1>a, <1>b DEF UpToDate, CallRecords, rotateAuthKey
<1>5. Resolves(mine)
  BY <1>1, <1>a, <1>b DEF Resolves, CallRecords, rotateAuthKey
<1> HIDE DEF mine
<1> QED BY <1>2, <1>3, <1>4, <1>5, OneCall

\* The caller signs with the account's key.
LEMMA BeginSend_Keeps ==
  ASSUME KeysInv, NEW u \in Users, NEW a \in AuthKeys, NEW sponsored \in BOOLEAN, BeginSend(u, a, sponsored)
  PROVE  KeysInv'
<1> DEFINE signer == IF account[a] = Unset THEN a ELSE account[a].key
           mine == [Resting EXCEPT !.pc = "number", !.op = "send", !.address = a,
                   !.signer = signer, !.sponsored = sponsored]
<1>1. user[u] \in CallRecords /\ UpToDate(user[u]) /\ Resolves(user[u])
  BY DEF KeysInv, KeysTypeOK
<1>2. user' = [user EXCEPT ![u] = mine] /\ Unchanged
  BY <1>1 DEF KeysInv, KeysTypeOK, CallRecords, BeginSend, Resting
<1>a. a \in AuthKeys /\ a # Unset
  BY <1>1, KeysAssumption DEF UpToDate, BeginSend, Resting
<1>b. /\ account[a] \in Accounts \cup {Unset}
      /\ account[a] # Unset =>
            account[a].number \in Nat /\ account[a].key \in AuthKeys
      /\ NumberOf(a) \in Nat /\ KeyOf(a) \in AuthKeys
  BY <1>a, StoredAccount DEF KeysInv
<1>3. mine \in CallRecords
  <2>1. signer \in AuthKeys
    BY <1>a, <1>b
  <2> HIDE DEF signer
  <2> QED BY <1>a, <2>1 DEF CallRecords, Resting
<1>4. UpToDate(mine)
  BY <1>1, <1>a, <1>b DEF UpToDate, CallRecords, BeginSend, Resting, KeyOf
<1>5. Resolves(mine)
  BY <1>1, <1>a, <1>b DEF Resolves, CallRecords, BeginSend, Resting
<1> HIDE DEF mine
<1> QED BY <1>2, <1>3, <1>4, <1>5, OneCall

\* The caller has the account's key.
LEMMA BeginRotation_Keeps ==
  ASSUME KeysInv, NEW u \in Users, NEW a \in AuthKeys, NEW k \in Keys, BeginRotation(u, a, k)
  PROVE  KeysInv'
<1> DEFINE mine == [Resting EXCEPT !.pc = "info", !.op = "rotate", !.address = a,
                   !.signer = account[a].key, !.new = Legacy(k)]
<1>1. user[u] \in CallRecords /\ UpToDate(user[u]) /\ Resolves(user[u])
  BY DEF KeysInv, KeysTypeOK
<1>2. user' = [user EXCEPT ![u] = mine] /\ Unchanged
  BY <1>1 DEF KeysInv, KeysTypeOK, CallRecords, BeginRotation, Resting
<1>a. a \in AuthKeys /\ a # Unset
  BY <1>1, KeysAssumption DEF UpToDate, BeginRotation, Resting
<1>b. /\ account[a] \in Accounts \cup {Unset}
      /\ account[a] # Unset =>
            account[a].number \in Nat /\ account[a].key \in AuthKeys
      /\ NumberOf(a) \in Nat /\ KeyOf(a) \in AuthKeys
  BY <1>a, StoredAccount DEF KeysInv
<1>3. mine \in CallRecords
  BY <1>1, <1>a, <1>b DEF CallRecords, BeginRotation, Resting, AuthKeys
<1>4. UpToDate(mine)
  BY <1>1, <1>a, <1>b DEF UpToDate, CallRecords, BeginRotation, Resting, AuthKeys
<1>5. Resolves(mine)
  BY <1>1, <1>a, <1>b DEF Resolves, CallRecords, BeginRotation, Resting
<1> HIDE DEF mine
<1> QED BY <1>2, <1>3, <1>4, <1>5, OneCall

\* Nothing is asked yet.
LEMMA BeginDerive_Keeps ==
  ASSUME KeysInv, NEW u \in Users, NEW k \in Keys, BeginDerive(u, k)
  PROVE  KeysInv'
<1> DEFINE mine == [Resting EXCEPT !.pc = "lookup", !.op = "derive", !.new = k,
                   !.signer = Single(k), !.known = Known]
<1>1. user[u] \in CallRecords /\ UpToDate(user[u]) /\ Resolves(user[u])
  BY DEF KeysInv, KeysTypeOK
<1>2. user' = [user EXCEPT ![u] = mine] /\ Unchanged
  BY <1>1 DEF KeysInv, KeysTypeOK, CallRecords, BeginDerive, Resting
<1>3. mine \in CallRecords
  BY <1>1 DEF CallRecords, BeginDerive, Resting, AuthKeys, Known
<1>4. UpToDate(mine)
  BY <1>1 DEF UpToDate, CallRecords, BeginDerive, Resting
<1>5. Resolves(mine)
  BY <1>1 DEF Resolves, CallRecords, BeginDerive, Resting, Legacy, Single
<1> HIDE DEF mine
<1> QED BY <1>2, <1>3, <1>4, <1>5, OneCall

\* A known key has the address of an account.
LEMMA lookupOriginalAccountAddress_Keeps ==
  ASSUME KeysInv, NEW u \in Users, lookupOriginalAccountAddress(u)
  PROVE  KeysInv'
<1> DEFINE mine == [user[u] EXCEPT !.found = OriginalOf(user[u].signer), !.pc = "exists"]
<1>1. user[u] \in CallRecords /\ UpToDate(user[u]) /\ Resolves(user[u])
  BY DEF KeysInv, KeysTypeOK
<1>2. user' = [user EXCEPT ![u] = mine] /\ Unchanged
  BY <1>1 DEF KeysInv, KeysTypeOK, CallRecords, lookupOriginalAccountAddress
<1>a. user[u].signer \in AuthKeys
  BY <1>1 DEF Resolves, AuthKeys, lookupOriginalAccountAddress
<1>b. OriginalOf(user[u].signer) \in AuthKeys
  BY <1>a DEF OriginalOf, KeysInv, KeysTypeOK
<1>3. mine \in CallRecords
  BY <1>1, <1>a, <1>b DEF CallRecords, lookupOriginalAccountAddress
<1>4. UpToDate(mine)
  BY <1>1 DEF UpToDate, CallRecords, lookupOriginalAccountAddress
<1>5. Resolves(mine)
  BY <1>1, <1>a, <1>b DEF Known, Resolves, CallRecords, lookupOriginalAccountAddress
<1> HIDE DEF mine
<1> QED BY <1>2, <1>3, <1>4, <1>5, OneCall

\* A call that ends without having changed anything, in a way that says nothing
\* about the account.
LEMMA Ends_Keeps ==
  ASSUME KeysInv, NEW u \in Users, Unchanged,
         NEW outcome \in {"threw", "refused", "cannot derive"}, Ends(u, outcome),
         outcome = "refused" => user[u].overtaken \/ (user[u].sponsored /\ user[u].number = 0),
         outcome = "cannot derive" =>
            {Legacy(user[u].new), Single(user[u].new)} \cap user[u].known = {}
  PROVE  KeysInv'
<1> DEFINE mine == Ended(user[u], outcome)
<1>1. user[u] \in CallRecords /\ UpToDate(user[u]) /\ Resolves(user[u])
  BY DEF KeysInv, KeysTypeOK
<1>2. user' = [user EXCEPT ![u] = mine] /\ Unchanged
  BY DEF Ends
<1>3. mine \in CallRecords
  BY <1>1 DEF CallRecords, Ended
<1>4. UpToDate(mine)
  BY <1>1 DEF UpToDate, CallRecords, Ended
<1>5. Resolves(mine)
  BY <1>1 DEF Resolves, CallRecords, Ended
<1> HIDE DEF mine
<1> QED BY <1>2, <1>3, <1>4, <1>5, OneCall

\* An error of getInfo ends the call, or is the 0 of a sponsored one.
LEMMA getSequenceNumber_Fails_Keeps ==
  ASSUME KeysInv, NEW u \in Users, getSequenceNumber_Fails(u)
  PROVE  KeysInv'
<1> DEFINE mine == [user[u] EXCEPT !.pc = "submit", !.number = 0]
<1>1. user[u] \in CallRecords /\ UpToDate(user[u]) /\ Resolves(user[u])
  BY DEF KeysInv, KeysTypeOK
<1>2. CASE user[u].sponsored /\ Numbered(u, 0)
  <2>1. user' = [user EXCEPT ![u] = mine] /\ Unchanged
    BY <1>1, <1>2 DEF KeysInv, KeysTypeOK, CallRecords, Numbered, getSequenceNumber_Fails
  <2>2. mine \in CallRecords
    BY <1>1 DEF CallRecords
  <2>3. UpToDate(mine)
    BY <1>1, <1>2 DEF UpToDate, CallRecords, getSequenceNumber_Fails
  <2>4. Resolves(mine)
    BY <1>1 DEF Resolves, CallRecords, getSequenceNumber_Fails
  <2> HIDE DEF mine
  <2> QED BY <2>1, <2>2, <2>3, <2>4, OneCall
<1>3. CASE Ends(u, "threw")
  BY <1>3, Ends_Keeps DEF getSequenceNumber_Fails
<1> QED BY <1>2, <1>3 DEF getSequenceNumber_Fails

\* The answer about the address that was looked up.
LEMMA isAccountExist_Keeps ==
  ASSUME KeysInv, NEW u \in Users, isAccountExist(u)
  PROVE  KeysInv'
<1>1. user[u] \in CallRecords /\ UpToDate(user[u]) /\ Resolves(user[u])
  BY DEF KeysInv, KeysTypeOK
<1>k. user[u].pc = "exists" /\ user[u].new \in Keys /\ Unchanged
  BY <1>1 DEF Resolves, isAccountExist
<1>2. CASE account[user[u].found] # Unset /\ Derived(u)
  <2> DEFINE mine == [Ended(user[u], "derived") EXCEPT !.address = user[u].signer]
  <2>1. user' = [user EXCEPT ![u] = mine] /\ Unchanged
    BY <1>2, <1>k DEF Derived
  <2>2. mine \in CallRecords
    BY <1>1 DEF CallRecords, Ended
  <2>3. UpToDate(mine)
    BY <1>1 DEF UpToDate, CallRecords, Ended
  <2>4. Resolves(mine)
    BY <1>1, <1>k DEF Resolves, CallRecords, Ended, Legacy, Single
  <2> HIDE DEF mine
  <2> QED BY <2>1, <2>2, <2>3, <2>4, OneCall
<1>3. CASE /\ account[user[u].found] = Unset /\ user[u].signer = Single(user[u].new)
           /\ user' = [user EXCEPT ![u].signer = Legacy(user[u].new), ![u].pc = "lookup"]
  <2> DEFINE mine == [user[u] EXCEPT !.signer = Legacy(user[u].new), !.pc = "lookup"]
  <2>1. user' = [user EXCEPT ![u] = mine] /\ Unchanged
    BY <1>1, <1>3, <1>k DEF KeysInv, KeysTypeOK, CallRecords
  <2>2. mine \in CallRecords
    BY <1>1, <1>k DEF CallRecords, AuthKeys
  <2>3. UpToDate(mine)
    BY <1>1 DEF UpToDate, CallRecords
  <2>4. Resolves(mine)
    BY <1>1, <1>3, <1>k DEF Resolves, CallRecords
  <2> HIDE DEF mine
  <2> QED BY <2>1, <2>2, <2>3, <2>4, OneCall
<1>4. CASE /\ account[user[u].found] = Unset /\ user[u].signer = Legacy(user[u].new)
           /\ Ends(u, "cannot derive")
  <2>1. {Legacy(user[u].new), Single(user[u].new)} \cap user[u].known = {}
    BY <1>1, <1>4, <1>k DEF Resolves
  <2> QED BY <1>4, <1>k, <2>1, Ends_Keeps
<1> QED BY <1>2, <1>3, <1>4 DEF isAccountExist

\* The caller takes the result and begins anew.
LEMMA ReturnCall_Keeps ==
  ASSUME KeysInv, NEW u \in Users, ReturnCall(u)
  PROVE  KeysInv'
<1>1. Resting \in CallRecords
  BY DEF Resting, CallRecords
<1>2. UpToDate(Resting) /\ Resolves(Resting)
  BY DEF UpToDate, Resolves, Resting
<1> QED BY <1>1, <1>2, OneCall DEF ReturnCall

\* The other steps that change no account.
LEMMA Failures_Keep ==
  ASSUME KeysInv, NEW u \in Users,
         rotateAuthKey_Fails(u) \/ derive_Fails(u) \/ SubmitFails(u)
  PROVE  KeysInv'
  BY Ends_Keeps DEF rotateAuthKey_Fails, derive_Fails, SubmitFails

\* A refused transaction was overtaken, or counted on the 0 of a sponsored one.
LEMMA Refused_Keeps ==
  ASSUME KeysInv, NEW u \in Users, user[u].pc = "submit", ~Accepted(u),
         Ends(u, "refused"), Unchanged
  PROVE  KeysInv'
<1>1. user[u] \in CallRecords /\ UpToDate(user[u])
  BY DEF KeysInv, KeysTypeOK
<1>2. user[u].overtaken \/ (user[u].sponsored /\ user[u].number = 0)
  BY <1>1 DEF UpToDate, CallRecords, Accepted, NumberOf, KeyOf
<1> QED BY <1>2, Ends_Keeps

\* A transaction of an account is executed: the account is there afterwards, the
\* calls of others on it are overtaken, and the other accounts are as before.
LEMMA Executed_Keeps ==
  ASSUME KeysInv, NEW u \in Users, user[u].pc = "submit",
         NEW new \in Accounts, account' = [account EXCEPT ![user[u].address] = new],
         original' \in [AuthKeys -> AuthKeys \cup {Unset}],
         NEW outcome \in {"executed", "aborted", "aborted: key in use"},
         outcome = "aborted" => user[u].overtaken,
         NEW still, Marked(u, outcome, still),
         \A v \in Users : user[v].known \cap still \subseteq Known'
  PROVE  KeysInv'
<1> DEFINE a == user[u].address
<1>1. \A v \in Users : user[v] \in CallRecords /\ UpToDate(user[v]) /\ Resolves(user[v])
  BY DEF KeysInv, KeysTypeOK
<1>2. a \in AuthKeys /\ account \in [AuthKeys -> Accounts \cup {Unset}]
  BY <1>1 DEF UpToDate, KeysInv, KeysTypeOK
<1>3. account' \in [AuthKeys -> Accounts \cup {Unset}]
  BY <1>2
<1>4. \A b \in AuthKeys : /\ b # a => account'[b] = account[b]
                          /\ account[b] # Unset => account'[b] # Unset
  BY <1>2, KeysAssumption
<1>5. ASSUME NEW v \in Users
      PROVE  /\ user'[v] \in CallRecords
             /\ UpToDate(user[v])' /\ Resolves(user[v])'
  <2>1. CASE v = u
    <3> DEFINE mine == Ended(user[u], outcome)
    <3>1. user'[v] = mine
      BY <2>1 DEF Marked
    <3>2. mine \in CallRecords
      BY <1>1 DEF CallRecords, Ended
    <3>3. mine.pc = "done" /\ mine.outcome = outcome /\ mine.op \in {"send", "rotate"}
          /\ mine.overtaken = user[u].overtaken /\ mine.known = {}
      BY <1>1 DEF CallRecords, Ended, UpToDate, Resolves
    <3> HIDE DEF mine
    <3> QED BY <3>1, <3>2, <3>3 DEF UpToDate, Resolves
  <2>2. CASE v # u
    <3> DEFINE late == user[v].overtaken \/ user[v].address = a
    <3>0. late \in BOOLEAN
      OBVIOUS
    <3>1. user'[v] = [user[v] EXCEPT !.overtaken = late, !.known = user[v].known \cap still]
      BY <2>2, <1>1 DEF Marked, CallRecords
    <3>a. ~late => ~user[v].overtaken /\ user[v].address # a
      OBVIOUS
    <3> HIDE DEF late
    <3>b. user[v].known \cap still \in SUBSET AuthKeys
      BY <1>1 DEF CallRecords
    <3>c. user[v] \in CallRecords
      BY <1>1
    <3>2. [user[v] EXCEPT !.overtaken = late, !.known = user[v].known \cap still] \in CallRecords
      <4>1. CASE late = TRUE
        BY <3>c, <3>b, <4>1 DEF CallRecords
      <4>2. CASE late = FALSE
        BY <3>c, <3>b, <4>2 DEF CallRecords
      <4> QED BY <3>0, <4>1, <4>2
    <3>3. PICK mine \in CallRecords :
             mine = [user[v] EXCEPT !.overtaken = late, !.known = user[v].known \cap still]
      BY <3>2
    <3>4. /\ \A f \in {"pc", "op", "address", "signer", "new", "sponsored", "challenge",
                      "number", "found", "outcome"} : mine[f] = user[v][f]
          /\ mine.overtaken = late /\ mine.known = user[v].known \cap still
      BY <1>1, <3>3 DEF CallRecords
    <3>5. UpToDate(mine)'
      <4>1. ~mine.overtaken /\ user[v].address \in AuthKeys =>
                account'[user[v].address] = account[user[v].address]
        BY <3>4, <3>a, <1>4
      <4>2. user[v].address \in AuthKeys /\ account[user[v].address] # Unset =>
                account'[user[v].address] # Unset
        BY <1>4
      <4>3. ~mine.overtaken => ~user[v].overtaken
        BY <3>4, <3>a
      <4>4. UpToDate(user[v])
        BY <1>1
      <4> QED BY <3>4, <4>1, <4>2, <4>3, <4>4 DEF UpToDate, KeyOf, NumberOf
    <3>6. Resolves(mine)'
      <4>1. user[v].known \cap still \subseteq Known'
        OBVIOUS
      <4>2. Resolves(user[v])
        BY <1>1
      <4>3. \A b \in AuthKeys : account[b] # Unset => account'[b] # Unset
        BY <1>4
      <4> QED BY <3>4, <4>1, <4>2, <4>3 DEF Resolves
    <3> QED BY <3>1, <3>3, <3>5, <3>6 DEF UpToDate, Resolves
  <2> QED BY <2>1, <2>2
<1>6. user' \in [Users -> CallRecords]
  BY <1>5 DEF Marked
<1> QED BY <1>3, <1>5, <1>6 DEF KeysInv, KeysTypeOK

\* The node refuses a transaction or executes it.
LEMMA Submit_Keeps ==
  ASSUME KeysInv, NEW u \in Users, Submit(u)
  PROVE  KeysInv'
<1> DEFINE a == user[u].address
           new == [number |-> NumberOf(a) + 1, key |-> KeyOf(a)]
<1>1. KeysTypeOK /\ user[u].pc = "submit" /\ a \in AuthKeys /\ original' = original
  BY DEF KeysInv, UpToDate, Submit
<1>2. CASE ~Accepted(u) /\ Ends(u, "refused") /\ UNCHANGED account
  BY <1>1, <1>2, Refused_Keeps DEF Unchanged
<1>3. CASE /\ account' = [account EXCEPT ![a] = new] /\ Marked(u, "executed", AuthKeys)
  <2>1. new \in Accounts
    <3>1. NumberOf(a) \in Nat /\ KeyOf(a) \in AuthKeys
      BY <1>1, StoredAccount
    <3> QED BY <3>1 DEF Accounts
  <2> HIDE DEF new
  <2>2. /\ account' \in [AuthKeys -> Accounts \cup {Unset}]
        /\ \A b \in AuthKeys : account[b] # Unset => account'[b] # Unset
    BY <1>1, <1>3, <2>1, KeysAssumption DEF KeysTypeOK
  <2>3. Known \subseteq Known'
    BY <1>1, <2>2, KnownStays
  <2>4. \A v \in Users : user[v].known \cap AuthKeys \subseteq Known'
    BY <2>3 DEF KeysInv, Resolves
  <2>5. original' \in [AuthKeys -> AuthKeys \cup {Unset}]
    BY <1>1 DEF KeysTypeOK
  <2> QED BY <1>1, <1>3, <2>1, <2>4, <2>5, Executed_Keeps
<1> QED BY <1>2, <1>3 DEF Submit

\* The node refuses a rotation, aborts it or executes it.
LEMMA SubmitRotation_Keeps ==
  ASSUME KeysInv, NEW u \in Users, SubmitRotation(u)
  PROVE  KeysInv'
<1> DEFINE a == user[u].address
           now == account[a]
           moved == [number |-> now.number + 1, key |-> user[u].new]
           counted == [number |-> now.number + 1, key |-> now.key]
<1>1. /\ KeysTypeOK /\ user[u].pc = "submit" /\ user[u].op = "rotate"
      /\ a \in AuthKeys /\ now # Unset
  BY DEF KeysInv, UpToDate, SubmitRotation
<1>2. now \in Accounts /\ now.number \in Nat /\ now.key \in AuthKeys
  BY <1>1, StoredAccount
<1>3. CASE ~Accepted(u) /\ Ends(u, "refused") /\ UNCHANGED <<account, original>>
  BY <1>1, <1>3, Refused_Keeps DEF Unchanged
<1>4. CASE /\ Accepted(u) /\ account' = [account EXCEPT ![a].number = @ + 1]
           /\ UNCHANGED original
           /\ \/ Marked(u, "aborted: key in use", AuthKeys)
              \/ user[u].challenge # now /\ Marked(u, "aborted", AuthKeys)
  <2>1. account' = [account EXCEPT ![a] = counted]
    <3>1. [now EXCEPT !.number = @ + 1] = counted
      BY <1>2 DEF Accounts
    <3>2. account' = [account EXCEPT ![a] = [now EXCEPT !.number = @ + 1]]
      BY <1>4
    <3> QED BY <3>1, <3>2
  <2>2. counted \in Accounts
    BY <1>2 DEF Accounts
  <2> HIDE DEF counted
  <2>3. /\ account' \in [AuthKeys -> Accounts \cup {Unset}]
        /\ \A b \in AuthKeys : account[b] # Unset => account'[b] # Unset
    BY <1>1, <2>1, <2>2, KeysAssumption DEF KeysTypeOK
  <2>4. Known \subseteq Known'
    BY <1>1, <1>4, <2>3, KnownStays
  <2>5. \A v \in Users : user[v].known \cap AuthKeys \subseteq Known'
    BY <2>4 DEF KeysInv, Resolves
  <2>6. original' \in [AuthKeys -> AuthKeys \cup {Unset}]
    BY <1>1, <1>4 DEF KeysTypeOK
  <2>7. user[u].challenge # now => user[u].overtaken
    BY <1>1 DEF KeysInv, UpToDate
  <2>8. CASE Marked(u, "aborted: key in use", AuthKeys)
    BY <1>1, <2>1, <2>2, <2>5, <2>6, <2>8, Executed_Keeps
  <2>9. CASE user[u].challenge # now /\ Marked(u, "aborted", AuthKeys)
    BY <1>1, <2>1, <2>2, <2>5, <2>6, <2>7, <2>9, Executed_Keeps
  <2> QED BY <1>4, <2>8, <2>9
<1>5. CASE /\ account' = [account EXCEPT ![a] = moved]
           /\ original' = [original EXCEPT ![now.key] = Unset, ![user[u].new] = a]
           /\ Marked(u, "executed", Known')
  <2>1. moved \in Accounts
    BY <1>1, <1>2 DEF Accounts, KeysInv, UpToDate
  <2> HIDE DEF moved
  <2>2. original' \in [AuthKeys -> AuthKeys \cup {Unset}]
    BY <1>1, <1>2, <1>5 DEF KeysTypeOK
  <2>3. \A v \in Users : user[v].known \cap Known' \subseteq Known'
    OBVIOUS
  <2> QED BY <1>1, <1>5, <2>1, <2>2, <2>3, Executed_Keeps
<1> QED BY <1>3, <1>4, <1>5 DEF SubmitRotation

\* A new account has the number and the key that a missing one counts as.
LEMMA Create_Keeps ==
  ASSUME KeysInv, NEW a \in AuthKeys, Create(a)
  PROVE  KeysInv'
<1>1. KeysTypeOK /\ account[a] = Unset /\ original' = original /\ user' = user
  BY DEF KeysInv, Create
<1>2. [number |-> 0, key |-> a] \in Accounts
  BY DEF Accounts
<1>3. /\ account' \in [AuthKeys -> Accounts \cup {Unset}]
      /\ \A b \in AuthKeys : /\ account[b] # Unset => account'[b] = account[b]
                             /\ account[b] # Unset => account'[b] # Unset
  BY <1>1, <1>2, KeysAssumption DEF Create, KeysTypeOK
<1>4. \A b \in AuthKeys : NumberOf(b)' = NumberOf(b) /\ KeyOf(b)' = KeyOf(b)
  <2> TAKE b \in AuthKeys
  <2>1. CASE b = a
    <3>1. account'[b] = [number |-> 0, key |-> a] /\ account'[b] # Unset
      BY <1>1, <1>2, <2>1, KeysAssumption DEF Create, KeysTypeOK
    <3> QED BY <1>1, <2>1, <3>1 DEF NumberOf, KeyOf
  <2>2. CASE b # a
    <3>1. account'[b] = account[b]
      BY <1>1, <2>2 DEF Create, KeysTypeOK
    <3> QED BY <3>1 DEF NumberOf, KeyOf
  <2> QED BY <2>1, <2>2
<1>5. Known \subseteq Known'
  BY <1>1, <1>3, KnownStays
<1>6. ASSUME NEW v \in Users PROVE UpToDate(user[v])' /\ Resolves(user[v])'
  <2>1. UpToDate(user[v]) /\ Resolves(user[v]) /\ user'[v] = user[v]
    BY <1>1 DEF KeysInv
  <2>2. UpToDate(user[v])'
    BY <1>3, <1>4, <2>1 DEF UpToDate
  <2>3. Resolves(user[v])'
    BY <1>3, <1>5, <2>1 DEF Resolves
  <2> QED BY <2>2, <2>3
<1> QED BY <1>1, <1>3, <1>6 DEF KeysInv, KeysTypeOK

\* The invariant is inductive, for any number of callers, keys and accounts.
THEOREM KeysInvariance == KeysSpec => []KeysInv
<1>1. KeysInit => KeysInv
  BY KeysInitially
<1>2. KeysInv /\ [KeysNext]_keysVars => KeysInv'
  <2> SUFFICES ASSUME KeysInv, [KeysNext]_keysVars PROVE KeysInv'
    OBVIOUS
  <2>1. CASE \E u \in Users, a \in AuthKeys, sponsored \in BOOLEAN : BeginSend(u, a, sponsored)
    BY <2>1, BeginSend_Keeps
  <2>2. CASE \E u \in Users, a \in AuthKeys, k \in Keys : BeginRotation(u, a, k)
    BY <2>2, BeginRotation_Keeps
  <2>3. CASE \E u \in Users, k \in Keys : BeginDerive(u, k)
    BY <2>3, BeginDerive_Keeps
  <2>4. CASE \E u \in Users : \/ getSequenceNumber(u) \/ getSequenceNumber_Fails(u)
                              \/ rotateAuthKey(u) \/ rotateAuthKey_Fails(u)
                              \/ lookupOriginalAccountAddress(u) \/ isAccountExist(u)
                              \/ derive_Fails(u) \/ SubmitFails(u) \/ ReturnCall(u)
    BY <2>4, getSequenceNumber_Keeps, getSequenceNumber_Fails_Keeps, rotateAuthKey_Keeps,
       lookupOriginalAccountAddress_Keeps, isAccountExist_Keeps, Failures_Keep, ReturnCall_Keeps
  <2>5. CASE \E u \in Users : Submit(u) \/ SubmitRotation(u)
    BY <2>5, Submit_Keeps, SubmitRotation_Keeps
  <2>6. CASE \E a \in AuthKeys : Create(a)
    BY <2>6, Create_Keeps
  <2>7. CASE UNCHANGED keysVars
    BY <2>7 DEF keysVars, KeysInv, KeysTypeOK, UpToDate, Resolves, KeyOf, NumberOf, Known,
                OriginalOf
  <2> QED BY <2>1, <2>2, <2>3, <2>4, <2>5, <2>6, <2>7 DEF KeysNext
<1> QED BY <1>1, <1>2, PTL DEF KeysSpec

\* generateRawTransaction, rotateAuthKey: a transaction is refused, and a rotation
\* aborted, only if another one of the account came in between, or if a sponsored
\* one took an error of getInfo for a new account.
THEOREM RefusedOnlyWhenOvertakenHolds == KeysSpec => []RefusedOnlyWhenOvertaken
<1>1. KeysInv => RefusedOnlyWhenOvertaken
  BY DEF KeysInv, UpToDate, RefusedOnlyWhenOvertaken
<1> QED BY <1>1, KeysInvariance, PTL

\* deriveAccountFromPrivateKey: no account that was on chain all along is passed
\* over or reported missing, whatever is created or rotated in between.
THEOREM DeriveResolvesTheSchemeHolds == KeysSpec => []DeriveResolvesTheScheme
<1>1. KeysInv => DeriveResolvesTheScheme
  BY DEF KeysInv, Resolves, DeriveResolvesTheScheme
<1> QED BY <1>1, KeysInvariance, PTL
-----------------------------------------------------------------------------
\* What the node answered, as old as it is now.
Answers == [network : Networks, age : Nat, exposes : BOOLEAN]

\* A value whose answers are no older than bound, and one of a network's own node.
Aged(value, bound) == \A i \in DOMAIN value : value[i].age <= bound
Of(value, n) == \A i \in DOMAIN value : value[i].network = n

\* How old a value may be when a read stores it under its key of a layer: what the
\* requests took, and one time to live for each layer of cache below.
Spent(read, layer) == (Len(read.keys) - layer) * Ttl + read.requests * Latency

\* The same, told from the key alone: every read with the key agrees on it.
PerFunction(key) == key[1] \in {"entry-function", "view-function"}
Shared(key) == PerFunction(key) \/ key = Key("module", Unnamed)
Allowed(key) ==
    (IF PerFunction(key) THEN Ttl ELSE 0)
      + (IF key[1] = "keyless-configuration" THEN 2 * Latency ELSE Latency)

Pcs == {"idle", "lookup", "asking", "answered", "storing", "done", "threw"}

CallType == [pc : Pcs, read : Reads \cup {Nothing}, layer : Int,
             value : Seq(Answers), flight : 0 .. Latency]

MemoShape ==
    /\ cache \in [AllKeys -> {Nothing} \cup [value : Seq(Answers), age : 0 .. Ttl]]
    /\ exposes \in [Networks -> BOOLEAN]
    /\ call \in [Callers -> CallType]

\* An entry ages with its answers.
EntryIsRecent(key, entry) ==
    /\ Aged(entry.value, Allowed(key) + entry.age)
    /\ Shared(key) \/ Of(entry.value, key[2])

\* How far a call is, and how old what it holds may be there.
CallIsRecent(k) ==
    /\ k.pc # "idle" => k.read \in Reads
    /\ k.pc = "lookup" => k.layer \in 1 .. Len(k.read.keys)
    /\ k.pc = "asking" =>
          /\ Len(k.value) < k.read.requests
          /\ Aged(k.value, Len(k.value) * Latency + k.flight)
    /\ k.pc = "answered" =>
          /\ Len(k.value) \in 1 .. k.read.requests
          /\ Aged(k.value, (Len(k.value) - 1) * Latency + k.flight)
    /\ k.pc = "storing" =>
          /\ k.layer \in 0 .. Len(k.read.keys)
          /\ Aged(k.value, Spent(k.read, k.layer))
    /\ k.pc = "done" => Aged(k.value, Spent(k.read, 0))
    /\ k.pc = "threw" => Aged(k.value, Spent(k.read, 1))
    /\ k.pc \in {"asking", "answered"} => Of(k.value, k.read.network)
    /\ k.pc \in {"storing", "done", "threw"} => ThroughModule(k.read) \/ Of(k.value, k.read.network)

MemoInv ==
    /\ MemoShape
    /\ \A key \in AllKeys : cache[key] = Nothing \/ EntryIsRecent(key, cache[key])
    /\ \A c \in Callers : CallIsRecent(call[c])

-----------------------------------------------------------------------------
LEMMA PairConcat == ASSUME NEW a, NEW b PROVE <<a>> \o <<b>> = <<a, b>>
<1> DEFINE s == <<a>> \o <<b>>
           t == <<a, b>>
           S == {a, b}
<1>1. <<a>> \in Seq(S) /\ <<b>> \in Seq(S) /\ Len(<<a>>) = 1 /\ Len(<<b>>) = 1
  OBVIOUS
<1>2. s \in Seq(S) /\ Len(s) = 2 /\ s[1] = a /\ s[2] = b
  BY <1>1, ConcatProperties
<1>3. t \in Seq(S) /\ Len(t) = 2 /\ t[1] = a /\ t[2] = b
  OBVIOUS
<1> SUFFICES s = t
  OBVIOUS
<1> HIDE DEF s, t, S
<1>4. \A i \in 1 .. Len(s) : s[i] = t[i]
  BY <1>2, <1>3
<1> QED
  BY <1>2, <1>3, <1>4, SeqEqual

\* The six reads, and what their keys say of them.
LEMMA ReadShapes ==
  ASSUME NEW n \in Networks, NEW read \in ReadsOf(n)
  PROVE  /\ read.network = n /\ read.requests \in {1, 2}
         /\ \/ read.keys = <<>>
            \/ /\ read.keys = <<Key("module", Unnamed)>> /\ read.requests = 1
            \/ /\ read.keys = <<Key("entry-function", n), Key("module", Unnamed)>>
               /\ read.requests = 1
            \/ /\ read.keys = <<Key("view-function", n), Key("module", Unnamed)>>
               /\ read.requests = 1
            \/ /\ read.keys = <<Key("gas-price", n)>> /\ read.requests = 1
            \/ /\ read.keys = <<Key("keyless-configuration", n)>> /\ read.requests = 2
<1>1. CASE read = getModule(n)
  BY <1>1 DEF getModule, Read
<1>2. CASE read = getModuleInner(n)
  BY <1>2 DEF getModuleInner, Read
<1>4. CASE read = fetchAbi(n)
  <2>1. read.keys = <<Key("entry-function", n)>> \o <<Key("module", Unnamed)>>
    BY <1>4 DEF fetchAbi, getModule, Read
  <2>2. read.keys = <<Key("entry-function", n), Key("module", Unnamed)>>
    BY <2>1, PairConcat
  <2> QED
    BY <1>4, <2>2 DEF fetchAbi, Read
<1>5. CASE read = fetchViewAbi(n)
  <2>1. read.keys = <<Key("view-function", n)>> \o <<Key("module", Unnamed)>>
    BY <1>5 DEF fetchViewAbi, getModule, Read
  <2>2. read.keys = <<Key("view-function", n), Key("module", Unnamed)>>
    BY <2>1, PairConcat
  <2> QED
    BY <1>5, <2>2 DEF fetchViewAbi, Read
<1>6. CASE read = getGasPriceEstimation(n)
  BY <1>6 DEF getGasPriceEstimation, Read
<1>7. CASE read = getKeylessConfig(n)
  BY <1>7 DEF getKeylessConfig, Read
<1> QED
  BY <1>1, <1>2, <1>4, <1>5, <1>6, <1>7 DEF ReadsOf

\* A key tells the time that may have passed below it, whichever read looks it up;
\* and unless it is a key through which a module is shared, its network.
LEMMA KeysTell ==
  ASSUME NEW read \in Reads
  PROVE  /\ read.requests \in {1, 2} /\ read.network \in Networks
         /\ Len(read.keys) \in {0, 1, 2} /\ (read.keys = <<>> <=> Len(read.keys) = 0)
         /\ \A i \in 1 .. Len(read.keys) :
               /\ read.keys[i] \in AllKeys
               /\ Allowed(read.keys[i]) = Spent(read, i)
               /\ Shared(read.keys[i]) <=> ThroughModule(read)
               /\ Shared(read.keys[i]) \/ read.keys[i][2] = read.network
<1>1. PICK n \in Networks : read \in ReadsOf(n)
  BY KnownReadsAssumption
<1> DEFINE keys == read.keys
<1>2. ASSUME keys = <<>>
      PROVE  Len(keys) = 0
  BY <1>2
<1>3. ASSUME NEW k, keys = <<k>>
      PROVE  /\ Len(keys) = 1 /\ DOMAIN keys = {1} /\ keys[1] = k
             /\ keys # <<>>
             /\ ThroughModule(read) <=> k = Key("module", Unnamed)
  BY <1>3 DEF ThroughModule
<1>4. ASSUME NEW k, NEW l, keys = <<k, l>>
      PROVE  /\ Len(keys) = 2 /\ DOMAIN keys = {1, 2} /\ keys[1] = k /\ keys[2] = l
             /\ keys # <<>>
             /\ ThroughModule(read) <=> Key("module", Unnamed) \in {k, l}
  BY <1>4 DEF ThroughModule
<1>5. \A i \in DOMAIN keys : keys[i] \in AllKeys
  BY DEF AllKeys
<1>6. Ttl \in Nat /\ Latency \in Nat
  BY MemoAssumption
<1>7. /\ \A text, m : /\ Key(text, m)[1] = text /\ Key(text, m)[2] = m
                      /\ Key(text, m) = Key("module", Unnamed) => text = "module"
  BY DEF Key
<1>8. /\ read.requests = 1 /\ Len(keys) = 1 => Spent(read, 1) = Latency
      /\ read.requests = 2 /\ Len(keys) = 1 => Spent(read, 1) = 2 * Latency
      /\ read.requests = 1 /\ Len(keys) = 2 =>
            Spent(read, 1) = Ttl + Latency /\ Spent(read, 2) = Latency
  <2>1. 0 * Ttl = 0 /\ 1 * Ttl = Ttl /\ 1 * Latency = Latency
    BY <1>6
  <2>2. 1 - 1 = 0 /\ 2 - 1 = 1 /\ 2 - 2 = 0
    OBVIOUS
  <2>3. CASE read.requests = 1 /\ Len(keys) = 1
    <3>1. Spent(read, 1) = (1 - 1) * Ttl + 1 * Latency
      BY <2>3 DEF Spent
    <3> QED
      BY <3>1, <2>1, <2>2, <2>3, <1>6
  <2>4. CASE read.requests = 2 /\ Len(keys) = 1
    <3>1. Spent(read, 1) = (1 - 1) * Ttl + 2 * Latency
      BY <2>4 DEF Spent
    <3> QED
      BY <3>1, <2>1, <2>2, <2>4, <1>6
  <2>5. CASE read.requests = 1 /\ Len(keys) = 2
    <3>1. /\ Spent(read, 1) = (2 - 1) * Ttl + 1 * Latency
          /\ Spent(read, 2) = (2 - 2) * Ttl + 1 * Latency
      BY <2>5 DEF Spent
    <3> QED
      BY <3>1, <2>1, <2>2, <2>5, <1>6
  <2> QED
    BY <2>3, <2>4, <2>5
<1>9. /\ read.network = n /\ read.requests \in {1, 2}
      /\ \/ read.keys = <<>>
         \/ /\ read.keys = <<Key("module", Unnamed)>> /\ read.requests = 1
         \/ /\ read.keys = <<Key("entry-function", n), Key("module", Unnamed)>>
            /\ read.requests = 1
         \/ /\ read.keys = <<Key("view-function", n), Key("module", Unnamed)>>
            /\ read.requests = 1
         \/ /\ read.keys = <<Key("gas-price", n)>> /\ read.requests = 1
         \/ /\ read.keys = <<Key("keyless-configuration", n)>> /\ read.requests = 2
  BY <1>1, ReadShapes
<1> SUFFICES
      /\ Len(keys) \in {0, 1, 2} /\ (keys = <<>> <=> Len(keys) = 0)
      /\ \A i \in 1 .. Len(keys) :
            /\ keys[i] \in AllKeys
            /\ Allowed(keys[i]) = Spent(read, i)
            /\ Shared(keys[i]) <=> ThroughModule(read)
            /\ Shared(keys[i]) \/ keys[i][2] = n
  BY <1>1, <1>9
<1>a. CASE keys = <<>>
  BY <1>a, <1>2
<1>b. CASE keys = <<Key("module", Unnamed)>> /\ read.requests = 1
  BY <1>b, <1>3, <1>5, <1>6, <1>7, <1>8 DEF Allowed, Shared, PerFunction
<1>c. ASSUME NEW text \in {"entry-function", "view-function"},
             keys = <<Key(text, n), Key("module", Unnamed)>>, read.requests = 1
      PROVE  /\ Len(keys) \in {0, 1, 2} /\ (keys = <<>> <=> Len(keys) = 0)
             /\ \A i \in 1 .. Len(keys) :
                   /\ keys[i] \in AllKeys
                   /\ Allowed(keys[i]) = Spent(read, i)
                   /\ Shared(keys[i]) <=> ThroughModule(read)
                   /\ Shared(keys[i]) \/ keys[i][2] = n
  <2>1. /\ Len(keys) = 2 /\ DOMAIN keys = {1, 2} /\ keys[1] = Key(text, n)
        /\ keys[2] = Key("module", Unnamed) /\ keys # <<>> /\ ThroughModule(read)
    BY <1>c, <1>4
  <2>2. Allowed(keys[1]) = Ttl + Latency /\ Shared(keys[1])
    BY <2>1, <1>6, <1>7 DEF Allowed, Shared, PerFunction
  <2>3. Allowed(keys[2]) = Latency /\ Shared(keys[2])
    BY <2>1, <1>6, <1>7 DEF Allowed, Shared, PerFunction
  <2> QED
    BY <1>c, <2>1, <2>2, <2>3, <1>5, <1>8
<1>d. CASE keys = <<Key("gas-price", n)>> /\ read.requests = 1
  BY <1>d, <1>3, <1>5, <1>6, <1>7, <1>8 DEF Allowed, Shared, PerFunction
<1>e. CASE keys = <<Key("keyless-configuration", n)>> /\ read.requests = 2
  BY <1>e, <1>3, <1>5, <1>6, <1>7, <1>8 DEF Allowed, Shared, PerFunction
<1> QED
  BY <1>9, <1>a, <1>b, <1>c, <1>d, <1>e

-----------------------------------------------------------------------------
\* Arithmetic of the times: each in a form that needs no multiplication.
LEMMA Times ==
  ASSUME NEW read \in Reads
  PROVE  /\ Latency \in Nat /\ Ttl \in Nat
         /\ 0 * Latency = 0 /\ 1 * Latency = Latency /\ 2 * Latency = Latency + Latency
         /\ \A layer \in 1 .. Len(read.keys) : Spent(read, layer - 1) = Spent(read, layer) + Ttl
         /\ \A layer \in 0 .. Len(read.keys) : Spent(read, layer) \in Nat
         /\ Spent(read, Len(read.keys)) = read.requests * Latency
<1>1. Latency \in Nat /\ Ttl \in Nat
  BY MemoAssumption
<1>2. read.requests \in {1, 2} /\ Len(read.keys) \in {0, 1, 2}
  BY KeysTell
<1>3. /\ 0 * Latency = 0 /\ 1 * Latency = Latency /\ 2 * Latency = Latency + Latency
      /\ 0 * Ttl = 0 /\ 1 * Ttl = Ttl /\ 2 * Ttl = Ttl + Ttl
  BY <1>1
<1>4. read.requests * Latency \in Nat
  BY <1>1, <1>2
<1>5. ASSUME NEW k \in 0 .. 2
      PROVE  k * Ttl \in Nat /\ (k + 1) * Ttl = k * Ttl + Ttl
  BY <1>1, <1>5
<1>a. \A l \in {0, 1, 2} : /\ \A m \in 0 .. l : l - m \in 0 .. 2
                           /\ \A m \in 1 .. l : l - m \in 0 .. 2 /\ l - (m - 1) = (l - m) + 1
  OBVIOUS
<1>6. ASSUME NEW layer \in 1 .. Len(read.keys)
      PROVE  Spent(read, layer - 1) = Spent(read, layer) + Ttl
  <2> DEFINE k == Len(read.keys) - layer
  <2>1. k \in 0 .. 2 /\ Len(read.keys) - (layer - 1) = k + 1
    BY <1>2, <1>6, <1>a
  <2>2. Spent(read, layer - 1) = (k + 1) * Ttl + read.requests * Latency
    BY <2>1 DEF Spent
  <2>3. Spent(read, layer) = k * Ttl + read.requests * Latency
    BY DEF Spent
  <2> HIDE DEF k
  <2>4. k * Ttl \in Nat /\ (k + 1) * Ttl = k * Ttl + Ttl
    BY <2>1, <1>5
  <2> QED
    BY <2>2, <2>3, <2>4, <1>1, <1>4
<1>7. ASSUME NEW layer \in 0 .. Len(read.keys)
      PROVE  Spent(read, layer) \in Nat
  <2>1. Len(read.keys) - layer \in 0 .. 2
    BY <1>2, <1>7, <1>a
  <2> QED
    BY <2>1, <1>4, <1>5 DEF Spent
<1>8. Spent(read, Len(read.keys)) = read.requests * Latency
  <2>1. Len(read.keys) - Len(read.keys) = 0
    BY <1>2
  <2>2. Spent(read, Len(read.keys)) = 0 * Ttl + read.requests * Latency
    BY <2>1 DEF Spent
  <2> QED
    BY <2>2, <1>3, <1>4
<1> QED
  BY <1>1, <1>3, <1>6, <1>7, <1>8

\* What a value is after one more answer, and after a tick.
LEMMA AppendAnswer ==
  ASSUME NEW value \in Seq(Answers), NEW a \in Answers
  PROVE  /\ Append(value, a) \in Seq(Answers)
         /\ Len(Append(value, a)) = Len(value) + 1 /\ Len(value) \in Nat
         /\ \A bound \in Nat : Aged(value, bound) /\ a.age = 0 => Aged(Append(value, a), bound)
         /\ \A n : Of(value, n) /\ a.network = n => Of(Append(value, a), n)
<1>1. /\ Append(value, a) \in Seq(Answers)
      /\ Len(Append(value, a)) = Len(value) + 1 /\ Len(value) \in Nat
      /\ DOMAIN value = 1 .. Len(value)
      /\ DOMAIN Append(value, a) = 1 .. (Len(value) + 1)
      /\ \A i \in 1 .. Len(value) : Append(value, a)[i] = value[i]
      /\ Append(value, a)[Len(value) + 1] = a
  OBVIOUS
<1>2. \A i \in DOMAIN Append(value, a) : i \in DOMAIN value \/ i = Len(value) + 1
  BY <1>1
<1> QED
  BY <1>1, <1>2 DEF Aged, Of

LEMMA OlderFacts ==
  ASSUME NEW value \in Seq(Answers)
  PROVE  /\ Older(value) \in Seq(Answers) /\ Len(Older(value)) = Len(value)
         /\ \A bound \in Int : Aged(value, bound) => Aged(Older(value), bound + 1)
         /\ \A n : Of(value, n) => Of(Older(value), n)
<1>1. DOMAIN value = 1 .. Len(value) /\ Len(value) \in Nat /\ \A i \in DOMAIN value : value[i] \in Answers
  OBVIOUS
<1>2. ASSUME NEW a \in Answers
      PROVE  /\ [a EXCEPT !.age = @ + 1] \in Answers
             /\ [a EXCEPT !.age = @ + 1].age = a.age + 1 /\ a.age \in Nat
             /\ [a EXCEPT !.age = @ + 1].network = a.network
  BY DEF Answers
<1>3. /\ DOMAIN Older(value) = 1 .. Len(value)
      /\ \A i \in DOMAIN value : /\ Older(value)[i] \in Answers
                                 /\ Older(value)[i].age = value[i].age + 1 /\ value[i].age \in Nat
                                 /\ Older(value)[i].network = value[i].network
  BY <1>1, <1>2 DEF Older
<1>4. Older(value) = [i \in 1 .. Len(value) |-> Older(value)[i]]
  BY <1>1 DEF Older
<1>5. Older(value) \in Seq(Answers) /\ Len(Older(value)) = Len(value)
  BY <1>1, <1>3, <1>4, IsASeq
<1> QED
  BY <1>1, <1>3, <1>5 DEF Aged, Of

\* A bound that is met is met by whatever is larger.
LEMMA AgedLess ==
  ASSUME NEW value \in Seq(Answers), NEW low \in Int, NEW high \in Int,
         Aged(value, low), low <= high
  PROVE  Aged(value, high)
<1>1. \A i \in DOMAIN value : value[i] \in Answers
  OBVIOUS
<1>2. \A a \in Answers : a.age \in Nat
  BY DEF Answers
<1> QED
  BY <1>1, <1>2 DEF Aged

-----------------------------------------------------------------------------
\* A step of a caller that leaves the cache alone.
Held(read, pc, layer, value, flight) ==
    [pc |-> pc, read |-> read, layer |-> layer, value |-> value, flight |-> flight]

LEMMA HeldIsRecent ==
  ASSUME NEW read \in Reads, NEW layer, NEW value, NEW flight
  PROVE  /\ layer \in 1 .. Len(read.keys) => CallIsRecent(Held(read, "lookup", layer, value, flight))
         /\ /\ Len(value) < read.requests /\ Of(value, read.network)
            /\ Aged(value, Len(value) * Latency + flight)
            => CallIsRecent(Held(read, "asking", layer, value, flight))
         /\ /\ Len(value) \in 1 .. read.requests /\ Of(value, read.network)
            /\ Aged(value, (Len(value) - 1) * Latency + flight)
            => CallIsRecent(Held(read, "answered", layer, value, flight))
         /\ /\ layer \in 0 .. Len(read.keys) /\ Aged(value, Spent(read, layer))
            /\ ThroughModule(read) \/ Of(value, read.network)
            => CallIsRecent(Held(read, "storing", layer, value, flight))
         /\ Aged(value, Spent(read, 0)) /\ (ThroughModule(read) \/ Of(value, read.network))
            => CallIsRecent(Held(read, "done", layer, value, flight))
         /\ Aged(value, Spent(read, 1)) /\ (ThroughModule(read) \/ Of(value, read.network))
            => CallIsRecent(Held(read, "threw", layer, value, flight))
<1> DEFINE k(pc) == Held(read, pc, layer, value, flight)
<1>1. \A pc : /\ k(pc).pc = pc /\ k(pc).read = read /\ k(pc).layer = layer /\ k(pc).value = value
              /\ k(pc).flight = flight
  BY DEF Held
<1> HIDE DEF k
<1>2. layer \in 1 .. Len(read.keys) => CallIsRecent(k("lookup"))
  BY <1>1 DEF CallIsRecent
<1>3. /\ Len(value) < read.requests /\ Of(value, read.network)
      /\ Aged(value, Len(value) * Latency + flight)
      => CallIsRecent(k("asking"))
  BY <1>1 DEF CallIsRecent
<1>4. /\ Len(value) \in 1 .. read.requests /\ Of(value, read.network)
      /\ Aged(value, (Len(value) - 1) * Latency + flight)
      => CallIsRecent(k("answered"))
  BY <1>1 DEF CallIsRecent
<1>5. /\ layer \in 0 .. Len(read.keys) /\ Aged(value, Spent(read, layer))
      /\ ThroughModule(read) \/ Of(value, read.network)
      => CallIsRecent(k("storing"))
  BY <1>1 DEF CallIsRecent
<1>6. Aged(value, Spent(read, 0)) /\ (ThroughModule(read) \/ Of(value, read.network))
      => CallIsRecent(k("done"))
  BY <1>1 DEF CallIsRecent
<1>7. Aged(value, Spent(read, 1)) /\ (ThroughModule(read) \/ Of(value, read.network))
      => CallIsRecent(k("threw"))
  BY <1>1 DEF CallIsRecent
<1> QED
  BY <1>2, <1>3, <1>4, <1>5, <1>6, <1>7 DEF k

LEMMA Moves ==
  ASSUME call \in [Callers -> CallType], \A d \in Callers : CallIsRecent(call[d]),
         NEW c \in Callers, call[c].read \in Reads,
         NEW pc \in Pcs, NEW layer \in Int, NEW value \in Seq(Answers), NEW flight \in 0 .. Latency,
         To(c, pc, layer, value, flight),
         CallIsRecent(Held(call[c].read, pc, layer, value, flight))
  PROVE  call' \in [Callers -> CallType] /\ \A d \in Callers : CallIsRecent(call'[d])
<1> DEFINE k == Held(call[c].read, pc, layer, value, flight)
<1>1. k \in CallType
  BY DEF Held, CallType
<1>2. call' = [call EXCEPT ![c] = k]
  <2>1. call[c] \in CallType
    OBVIOUS
  <2>2. call[c] = Held(call[c].read, call[c].pc, call[c].layer, call[c].value, call[c].flight)
    BY <2>1 DEF CallType, Held
  <2>3. call'[c] = k /\ \A d \in Callers \ {c} : call'[d] = call[d]
    BY <2>1 DEF To, CallType, Held
  <2>4. call' = [d \in Callers |-> call'[d]]
    BY DEF To
  <2> QED
    BY <2>3, <2>4
<1> HIDE DEF k
<1> QED
  BY <1>1, <1>2 DEF k

LEMMA CacheStays ==
  ASSUME MemoInv, UNCHANGED <<cache, exposes>>,
         call' \in [Callers -> CallType], \A d \in Callers : CallIsRecent(call'[d])
  PROVE  MemoInv'
BY DEF MemoInv, MemoShape

\* A call that has begun is of a read of the instance.
LEMMA Begun ==
  ASSUME MemoInv, NEW c \in Callers, call[c].pc # "idle"
  PROVE  /\ call[c].read \in Reads /\ call[c].layer \in Int /\ call[c].value \in Seq(Answers)
         /\ call[c].flight \in 0 .. Latency /\ CallIsRecent(call[c])
         /\ call \in [Callers -> CallType] /\ \A d \in Callers : CallIsRecent(call[d])
BY DEF MemoInv, MemoShape, CallIsRecent, CallType

LEMMA NoAnswers ==
  ASSUME NEW bound, NEW n
  PROVE  <<>> \in Seq(Answers) /\ Len(<<>>) = 0 /\ Aged(<<>>, bound) /\ Of(<<>>, n)
BY DEF Aged, Of

LEMMA AskingAfresh ==
  ASSUME NEW read \in Reads, NEW layer
  PROVE  CallIsRecent(Held(read, "asking", layer, <<>>, 0))
<1>1. read.requests \in {1, 2}
  BY KeysTell
<1>2. Len(<<>>) < read.requests /\ Of(<<>>, read.network) /\ Aged(<<>>, Len(<<>>) * Latency + 0)
  BY <1>1, NoAnswers
<1> QED
  BY <1>2, HeldIsRecent

LEMMA BeginKeeps ==
  ASSUME MemoInv, NEW c \in Callers, NEW read \in Reads, BeginRead(c, read)
  PROVE  MemoInv'
<1> DEFINE pc == IF read.keys = <<>> THEN "asking" ELSE "lookup"
           k == Held(read, pc, 1, <<>>, 0)
<1>1. call' = [call EXCEPT ![c] = k]
  <2>1. [AtRest EXCEPT !.pc = pc, !.read = read, !.layer = 1] = k
    <3>1. ASSUME NEW p
          PROVE  [AtRest EXCEPT !.pc = p, !.read = read, !.layer = 1] = Held(read, p, 1, <<>>, 0)
      <4> DEFINE r == [AtRest EXCEPT !.pc = p, !.read = read, !.layer = 1]
                 R == [pc : {p}, read : {read}, layer : {1}, value : {<<>>}, flight : {0}]
      <4>1. r \in R
        BY DEF AtRest
      <4>2. Held(read, p, 1, <<>>, 0) \in R
        BY DEF Held
      <4>3. \A x, y \in R : x = y
        OBVIOUS
      <4> QED
        BY <4>1, <4>2, <4>3
    <3> QED
      BY <3>1
  <2> QED
    BY <2>1 DEF BeginRead
<1>2. 0 \in 0 .. Latency /\ Latency \in Nat /\ 0 * Latency = 0
  BY Times
<1>3. k \in CallType
  BY <1>2, NoAnswers DEF Held, CallType, Pcs
<1>4. CallIsRecent(k)
  <2>1. read.requests \in {1, 2} /\ Len(read.keys) \in {0, 1, 2}
        /\ (read.keys = <<>> <=> Len(read.keys) = 0)
    BY KeysTell
  <2>2. CASE read.keys = <<>>
    <3>1. CallIsRecent(Held(read, "asking", 1, <<>>, 0))
      BY AskingAfresh
    <3> QED
      BY <3>1, <2>2
  <2>3. CASE read.keys # <<>>
    <3>1. CallIsRecent(Held(read, "lookup", 1, <<>>, 0))
      BY <2>1, <2>3, HeldIsRecent
    <3> QED
      BY <3>1, <2>3
  <2> QED
    BY <2>2, <2>3
<1> HIDE DEF k
<1>5. call' \in [Callers -> CallType] /\ \A d \in Callers : CallIsRecent(call'[d])
  BY <1>1, <1>3, <1>4 DEF MemoInv, MemoShape
<1> QED
  BY <1>5, CacheStays DEF BeginRead

LEMMA LookupKeeps ==
  ASSUME MemoInv, NEW c \in Callers, Lookup(c)
  PROVE  MemoInv'
<1> DEFINE read == call[c].read
           layer == call[c].layer
           key == read.keys[layer]
           entry == cache[key]
<1>1. /\ call[c].pc = "lookup" /\ read \in Reads /\ layer \in 1 .. Len(read.keys)
      /\ call \in [Callers -> CallType] /\ \A d \in Callers : CallIsRecent(call[d])
  BY Begun DEF Lookup, CallIsRecent
<1>2. /\ Latency \in Nat /\ Ttl \in Nat /\ 0 * Latency = 0 /\ 0 \in 0 .. Latency
      /\ Spent(read, layer - 1) = Spent(read, layer) + Ttl /\ Spent(read, layer) \in Nat
  <2>1. Len(read.keys) \in {0, 1, 2}
    BY <1>1, KeysTell
  <2>2. layer \in 0 .. Len(read.keys)
    BY <1>1, <2>1
  <2> QED
    BY <1>1, <2>2, Times
<1>3. /\ read.requests \in {1, 2} /\ Len(read.keys) \in {0, 1, 2} /\ key \in AllKeys
      /\ Allowed(key) = Spent(read, layer) /\ (Shared(key) <=> ThroughModule(read))
      /\ Shared(key) \/ key[2] = read.network
  BY <1>1, KeysTell
<1>4. ASSUME entry # Nothing, To(c, "storing", layer - 1, entry.value, 0)
      PROVE  call' \in [Callers -> CallType] /\ \A d \in Callers : CallIsRecent(call'[d])
  <2>1. /\ entry.value \in Seq(Answers) /\ entry.age \in 0 .. Ttl
        /\ Aged(entry.value, Allowed(key) + entry.age)
        /\ Shared(key) \/ Of(entry.value, key[2])
    BY <1>3, <1>4 DEF MemoInv, MemoShape, EntryIsRecent
  <2>2. Aged(entry.value, Spent(read, layer - 1))
    <3> DEFINE low == Spent(read, layer) + entry.age
    <3>1. low \in Int /\ Spent(read, layer - 1) \in Int /\ low <= Spent(read, layer - 1)
      <4>1. \A s, t \in Nat : \A e \in 0 .. t :
               s + e \in Int /\ s + t \in Int /\ s + e <= s + t
        OBVIOUS
      <4> QED
        BY <4>1, <2>1, <1>2
    <3>2. Aged(entry.value, low)
      BY <2>1, <1>3
    <3> HIDE DEF low
    <3> QED
      BY <2>1, <3>1, <3>2, AgedLess
  <2>3. layer - 1 \in 0 .. Len(read.keys) /\ layer - 1 \in Int
    BY <1>1, <1>3
  <2>4. ThroughModule(read) \/ Of(entry.value, read.network)
    BY <2>1, <1>3
  <2>5. CallIsRecent(Held(read, "storing", layer - 1, entry.value, 0))
    BY <1>1, <2>2, <2>3, <2>4, HeldIsRecent
  <2>6. "storing" \in Pcs
    BY DEF Pcs
  <2> QED
    BY <1>1, <1>2, <1>4, <2>1, <2>3, <2>5, <2>6, Moves
<1>5. ASSUME layer < Len(read.keys), To(c, "lookup", layer + 1, <<>>, 0)
      PROVE  call' \in [Callers -> CallType] /\ \A d \in Callers : CallIsRecent(call'[d])
  <2>1. layer + 1 \in Int /\ layer + 1 \in 1 .. Len(read.keys)
    BY <1>1, <1>3, <1>5
  <2>2. CallIsRecent(Held(read, "lookup", layer + 1, <<>>, 0))
    BY <1>1, <2>1, HeldIsRecent
  <2>3. "lookup" \in Pcs /\ <<>> \in Seq(Answers)
    BY NoAnswers DEF Pcs
  <2> QED
    BY <1>1, <1>2, <1>5, <2>1, <2>2, <2>3, Moves
<1>6. ASSUME To(c, "asking", layer + 1, <<>>, 0)
      PROVE  call' \in [Callers -> CallType] /\ \A d \in Callers : CallIsRecent(call'[d])
  <2>1. layer + 1 \in Int
    BY <1>1
  <2>2. CallIsRecent(Held(read, "asking", layer + 1, <<>>, 0))
    BY <1>1, AskingAfresh
  <2>3. "asking" \in Pcs /\ <<>> \in Seq(Answers)
    BY NoAnswers DEF Pcs
  <2> QED
    BY <1>1, <1>2, <1>6, <2>1, <2>2, <2>3, Moves
<1>7. \/ entry # Nothing /\ To(c, "storing", layer - 1, entry.value, 0)
      \/ To(c, IF layer < Len(read.keys) THEN "lookup" ELSE "asking", layer + 1, <<>>, 0)
  BY DEF Lookup
<1>8. call' \in [Callers -> CallType] /\ \A d \in Callers : CallIsRecent(call'[d])
  BY <1>7, <1>4, <1>5, <1>6
<1> QED
  BY <1>8, CacheStays DEF Lookup

LEMMA AnswerKeeps ==
  ASSUME MemoInv, NEW c \in Callers, NodeAnswers(c)
  PROVE  MemoInv'
<1> DEFINE read == call[c].read
           value == call[c].value
           flight == call[c].flight
           answer == [network |-> read.network, age |-> 0, exposes |-> exposes[read.network]]
<1>1. /\ call[c].pc = "asking" /\ read \in Reads /\ value \in Seq(Answers) /\ call[c].layer \in Int
      /\ flight \in 0 .. Latency /\ CallIsRecent(call[c])
      /\ call \in [Callers -> CallType] /\ \A d \in Callers : CallIsRecent(call[d])
  BY Begun DEF NodeAnswers
<1>2. /\ Len(value) < read.requests /\ Of(value, read.network)
      /\ Aged(value, Len(value) * Latency + flight)
  BY <1>1 DEF CallIsRecent
<1>3. read.requests \in {1, 2} /\ read.network \in Networks
  BY <1>1, KeysTell
<1>4. Latency \in Nat /\ 0 * Latency = 0 /\ 1 * Latency = Latency /\ Len(value) \in Nat
  BY <1>1, Times
<1>5. answer \in Answers /\ answer.age = 0 /\ answer.network = read.network
  BY <1>3 DEF Answers, MemoInv, MemoShape
<1> DEFINE more == Append(value, answer)
           bound == Len(value) * Latency + flight
<1>6. bound \in Nat
  <2>1. \A n \in Nat : n < 1 \/ n < 2 => n \in {0, 1}
    OBVIOUS
  <2>2. Len(value) \in {0, 1}
    BY <2>1, <1>2, <1>3, <1>4
  <2>3. Len(value) * Latency \in Nat
    BY <2>2, <1>4
  <2> QED
    BY <2>3, <1>1, <1>4
<1>7. /\ more \in Seq(Answers) /\ Len(more) = Len(value) + 1
      /\ Aged(more, bound) /\ Of(more, read.network)
  <2> HIDE DEF bound, answer
  <2> QED
    BY <1>1, <1>2, <1>5, <1>6, AppendAnswer DEF bound
<1>8. To(c, "answered", call[c].layer, more, flight)
  BY DEF NodeAnswers
<1> HIDE DEF more, answer
<1>9. Len(more) \in 1 .. read.requests /\ Len(more) - 1 = Len(value)
  BY <1>2, <1>3, <1>4, <1>7
<1>10. CallIsRecent(Held(read, "answered", call[c].layer, more, flight))
  <2>1. Aged(more, (Len(more) - 1) * Latency + flight)
    BY <1>7, <1>9
  <2> QED
    BY <1>1, <1>7, <1>9, <2>1, HeldIsRecent
<1>11. "answered" \in Pcs
  BY DEF Pcs
<1>12. call' \in [Callers -> CallType] /\ \A d \in Callers : CallIsRecent(call'[d])
  BY <1>1, <1>7, <1>8, <1>10, <1>11, Moves
<1> QED
  BY <1>12, CacheStays DEF NodeAnswers

LEMMA FailKeeps ==
  ASSUME MemoInv, NEW c \in Callers, RequestFails(c)
  PROVE  MemoInv'
<1>1. /\ call[c].pc = "asking" /\ call[c].read \in Reads
      /\ call \in [Callers -> CallType] /\ \A d \in Callers : CallIsRecent(call[d])
      /\ To(c, "threw", 0, <<>>, 0)
  BY Begun DEF RequestFails
<1>2. 0 \in 0 .. Latency /\ 0 \in Int
  BY MemoAssumption
<1>3. CallIsRecent(Held(call[c].read, "threw", 0, <<>>, 0))
  <2>1. Aged(<<>>, Spent(call[c].read, 1)) /\ Of(<<>>, call[c].read.network)
    BY NoAnswers
  <2> QED
    BY <1>1, <2>1, HeldIsRecent
<1>4. "threw" \in Pcs /\ <<>> \in Seq(Answers)
  BY NoAnswers DEF Pcs
<1>5. call' \in [Callers -> CallType] /\ \A d \in Callers : CallIsRecent(call'[d])
  BY <1>1, <1>2, <1>3, <1>4, Moves
<1> QED
  BY <1>5, CacheStays DEF RequestFails

LEMMA ArriveKeeps ==
  ASSUME MemoInv, NEW c \in Callers, Arrive(c)
  PROVE  MemoInv'
<1> DEFINE read == call[c].read
           value == call[c].value
           flight == call[c].flight
<1>1. /\ call[c].pc = "answered" /\ read \in Reads /\ value \in Seq(Answers) /\ call[c].layer \in Int
      /\ flight \in 0 .. Latency /\ CallIsRecent(call[c])
      /\ call \in [Callers -> CallType] /\ \A d \in Callers : CallIsRecent(call[d])
  BY Begun DEF Arrive
<1>2. /\ Len(value) \in 1 .. read.requests /\ Of(value, read.network)
      /\ Aged(value, (Len(value) - 1) * Latency + flight)
  BY <1>1 DEF CallIsRecent
<1>3. read.requests \in {1, 2} /\ Len(read.keys) \in {0, 1, 2}
  BY <1>1, KeysTell
<1>4. /\ Latency \in Nat /\ 0 * Latency = 0 /\ 1 * Latency = Latency
      /\ 2 * Latency = Latency + Latency /\ Spent(read, Len(read.keys)) = read.requests * Latency
  BY <1>1, Times
<1>5. Len(value) \in {1, 2}
  <2>1. 1 .. 1 = {1} /\ 1 .. 2 = {1, 2}
    OBVIOUS
  <2> QED
    BY <2>1, <1>2, <1>3
<1>6. Aged(value, Len(value) * Latency)
  <2> DEFINE low == (Len(value) - 1) * Latency + flight
             high == Len(value) * Latency
  <2>1. low \in Int /\ high \in Int /\ low <= high
    <3>1. CASE Len(value) = 1
      <4>1. low = 0 * Latency + flight /\ high = 1 * Latency
        BY <3>1
      <4> QED
        BY <4>1, <1>1, <1>4
    <3>2. CASE Len(value) = 2
      <4>1. low = 1 * Latency + flight /\ high = 2 * Latency
        BY <3>2
      <4> QED
        BY <4>1, <1>1, <1>4
    <3> QED
      BY <3>1, <3>2, <1>5
  <2>2. Aged(value, low)
    BY <1>2
  <2> HIDE DEF low, high
  <2>3. Aged(value, high)
    BY <2>1, <2>2, <1>1, AgedLess
  <2> QED
    BY <2>3 DEF high
<1>7. 0 \in 0 .. Latency
  BY <1>4
<1>8. ASSUME Len(value) < read.requests, To(c, "asking", call[c].layer, value, 0)
      PROVE  call' \in [Callers -> CallType] /\ \A d \in Callers : CallIsRecent(call'[d])
  <2>1. Aged(value, Len(value) * Latency + 0)
    <3>1. Len(value) * Latency + 0 = Len(value) * Latency
      BY <1>4, <1>5
    <3> QED
      BY <3>1, <1>6
  <2>2. CallIsRecent(Held(read, "asking", call[c].layer, value, 0))
    BY <1>1, <1>2, <1>8, <2>1, HeldIsRecent
  <2>3. "asking" \in Pcs
    BY DEF Pcs
  <2> QED
    BY <1>1, <1>7, <1>8, <2>2, <2>3, Moves
<1>9. ASSUME ~(Len(value) < read.requests), To(c, "storing", Len(read.keys), value, 0)
      PROVE  call' \in [Callers -> CallType] /\ \A d \in Callers : CallIsRecent(call'[d])
  <2>1. Len(value) = read.requests
    BY <1>2, <1>3, <1>5, <1>9
  <2>2. Aged(value, Spent(read, Len(read.keys)))
    BY <2>1, <1>4, <1>6
  <2>3. Len(read.keys) \in 0 .. Len(read.keys) /\ Len(read.keys) \in Int
    BY <1>3
  <2>4. CallIsRecent(Held(read, "storing", Len(read.keys), value, 0))
    BY <1>1, <1>2, <2>2, <2>3, HeldIsRecent
  <2>5. "storing" \in Pcs
    BY DEF Pcs
  <2> QED
    BY <1>1, <1>7, <1>9, <2>3, <2>4, <2>5, Moves
<1>10. call' \in [Callers -> CallType] /\ \A d \in Callers : CallIsRecent(call'[d])
  BY <1>8, <1>9 DEF Arrive
<1> QED
  BY <1>10, CacheStays DEF Arrive

LEMMA ReturnKeeps ==
  ASSUME MemoInv, NEW c \in Callers, ReturnRead(c)
  PROVE  MemoInv'
<1>1. AtRest \in CallType
  BY MemoAssumption, NoAnswers DEF AtRest, CallType, Pcs
<1>2. CallIsRecent(AtRest)
  BY DEF CallIsRecent, AtRest
<1>3. call' \in [Callers -> CallType] /\ \A d \in Callers : CallIsRecent(call'[d])
  BY <1>1, <1>2 DEF ReturnRead, MemoInv, MemoShape
<1> QED
  BY <1>3, CacheStays DEF ReturnRead

LEMMA StoreKeeps ==
  ASSUME MemoInv, NEW c \in Callers, StoreValue(c)
  PROVE  MemoInv'
<1> DEFINE read == call[c].read
           layer == call[c].layer
           value == call[c].value
<1>1. /\ call[c].pc = "storing" /\ read \in Reads /\ value \in Seq(Answers) /\ CallIsRecent(call[c])
      /\ call \in [Callers -> CallType] /\ \A d \in Callers : CallIsRecent(call[d])
  BY Begun DEF StoreValue
<1>2. /\ layer \in 0 .. Len(read.keys) /\ Aged(value, Spent(read, layer))
      /\ ThroughModule(read) \/ Of(value, read.network)
  BY <1>1 DEF CallIsRecent
<1>3. Len(read.keys) \in {0, 1, 2} /\ 0 \in 0 .. Latency /\ Latency \in Nat /\ Ttl \in Nat
  BY <1>1, KeysTell, MemoAssumption
<1> DEFINE key == read.keys[layer]
<1>4. ASSUME layer > 0
      PROVE  /\ layer \in 1 .. Len(read.keys) /\ layer - 1 \in 0 .. Len(read.keys) /\ layer - 1 \in Int
             /\ key \in AllKeys /\ Allowed(key) = Spent(read, layer) /\ Spent(read, layer) \in Nat
             /\ Spent(read, layer - 1) = Spent(read, layer) + Ttl
             /\ Shared(key) <=> ThroughModule(read)
             /\ Shared(key) \/ key[2] = read.network
  <2>1. layer \in 1 .. Len(read.keys) /\ layer - 1 \in 0 .. Len(read.keys) /\ layer - 1 \in Int
    BY <1>2, <1>3, <1>4
  <2> QED
    BY <2>1, <1>1, <1>2, KeysTell, Times
<1>5. CASE layer = 0 /\ To(c, "done", 0, value, 0) /\ UNCHANGED cache
  <2>1. CallIsRecent(Held(read, "done", 0, value, 0))
    BY <1>1, <1>2, <1>5, HeldIsRecent
  <2>2. "done" \in Pcs /\ 0 \in Int
    BY DEF Pcs
  <2>3. call' \in [Callers -> CallType] /\ \A d \in Callers : CallIsRecent(call'[d])
    BY <1>1, <1>3, <1>5, <2>1, <2>2, Moves
  <2> QED
    BY <2>3, <1>5, CacheStays DEF StoreValue
<1>6. CASE layer > 0 /\ LacksFunction(c) /\ To(c, "threw", 0, value, 0) /\ UNCHANGED cache
  <2>1. Aged(value, Spent(read, 1))
    BY <1>2, <1>6 DEF LacksFunction
  <2>2. CallIsRecent(Held(read, "threw", 0, value, 0))
    BY <1>1, <1>2, <2>1, HeldIsRecent
  <2>3. "threw" \in Pcs /\ 0 \in Int
    BY DEF Pcs
  <2>4. call' \in [Callers -> CallType] /\ \A d \in Callers : CallIsRecent(call'[d])
    BY <1>1, <1>3, <1>6, <2>2, <2>3, Moves
  <2> QED
    BY <2>4, <1>6, CacheStays DEF StoreValue
<1>7. CASE /\ layer > 0
           /\ cache' = [cache EXCEPT ![key] = [value |-> value, age |-> 0]]
           /\ To(c, "storing", layer - 1, value, 0)
  <2>1. Aged(value, Spent(read, layer - 1))
    <3>1. /\ Spent(read, layer) \in Int /\ Spent(read, layer - 1) \in Int
          /\ Spent(read, layer) <= Spent(read, layer - 1)
      BY <1>3, <1>4, <1>7
    <3> QED
      BY <3>1, <1>1, <1>2, AgedLess
  <2>2. CallIsRecent(Held(read, "storing", layer - 1, value, 0))
    BY <1>1, <1>2, <1>4, <1>7, <2>1, HeldIsRecent
  <2>3. "storing" \in Pcs
    BY DEF Pcs
  <2>4. call' \in [Callers -> CallType] /\ \A d \in Callers : CallIsRecent(call'[d])
    BY <1>1, <1>3, <1>4, <1>7, <2>2, <2>3, Moves
  <2> DEFINE entry == [value |-> value, age |-> 0]
  <2>5. entry \in [value : Seq(Answers), age : 0 .. Ttl] /\ entry.value = value /\ entry.age = 0
    BY <1>1, <1>3
  <2>6. EntryIsRecent(key, entry)
    <3>1. Allowed(key) + 0 = Spent(read, layer)
      BY <1>4, <1>7
    <3>2. Shared(key) \/ Of(value, key[2])
      BY <1>2, <1>4, <1>7
    <3> QED
      BY <2>5, <3>1, <3>2, <1>2 DEF EntryIsRecent
  <2> HIDE DEF entry
  <2>7. \A other \in AllKeys : cache'[other] = cache[other] \/ (other = key /\ cache'[other] = entry)
    BY <1>7 DEF entry, MemoInv, MemoShape
  <2>8. UNCHANGED exposes
    BY DEF StoreValue
  <2>9. cache' \in [AllKeys -> {Nothing} \cup [value : Seq(Answers), age : 0 .. Ttl]]
    BY <1>7, <2>5 DEF entry, MemoInv, MemoShape
  <2>10. \A other \in AllKeys : cache'[other] = Nothing \/ EntryIsRecent(other, cache'[other])
    BY <2>6, <2>7 DEF MemoInv
  <2> QED
    BY <2>4, <2>8, <2>9, <2>10 DEF MemoInv, MemoShape
<1> QED
  BY <1>5, <1>6, <1>7 DEF StoreValue

\* Time passes for what waits for a request, and for the entries.
LEMMA TickKeeps ==
  ASSUME MemoInv, Tick
  PROVE  MemoInv'
<1>1. Latency \in Nat /\ Ttl \in Nat
  BY MemoAssumption
<1>2. ASSUME NEW key \in AllKeys
      PROVE  /\ cache'[key] \in {Nothing} \cup [value : Seq(Answers), age : 0 .. Ttl]
             /\ cache'[key] = Nothing \/ EntryIsRecent(key, cache'[key])
  <2> DEFINE entry == cache[key]
             older == [value |-> Older(entry.value), age |-> entry.age + 1]
  <2>1. CASE entry = Nothing \/ entry.age >= Ttl
    BY <2>1 DEF Tick
  <2>2. CASE ~(entry = Nothing \/ entry.age >= Ttl)
    <3>1. /\ entry.value \in Seq(Answers) /\ entry.age \in 0 .. Ttl
          /\ Aged(entry.value, Allowed(key) + entry.age)
          /\ Shared(key) \/ Of(entry.value, key[2])
      BY <2>2 DEF MemoInv, MemoShape, EntryIsRecent
    <3>2. Allowed(key) \in Nat
      BY <1>1 DEF Allowed
    <3>3. entry.age + 1 \in 0 .. Ttl /\ Allowed(key) + entry.age \in Int
          /\ (Allowed(key) + entry.age) + 1 = Allowed(key) + (entry.age + 1)
      <4>1. \A a, t \in Nat : \A e \in 0 .. t : ~(e >= t) =>
               e + 1 \in 0 .. t /\ a + e \in Int /\ (a + e) + 1 = a + (e + 1)
        OBVIOUS
      <4> QED
        BY <4>1, <3>1, <3>2, <2>2, <1>1
    <3>4. /\ Older(entry.value) \in Seq(Answers)
          /\ Aged(Older(entry.value), (Allowed(key) + entry.age) + 1)
          /\ Shared(key) \/ Of(Older(entry.value), key[2])
      BY <3>1, <3>3, OlderFacts
    <3>5. older.value = Older(entry.value) /\ older.age = entry.age + 1
          /\ older \in [value : Seq(Answers), age : 0 .. Ttl]
      BY <3>3, <3>4
    <3>6. cache'[key] = older
      BY <2>2 DEF Tick
    <3> HIDE DEF older
    <3>7. EntryIsRecent(key, older)
      BY <3>3, <3>4, <3>5 DEF EntryIsRecent
    <3> QED
      BY <3>5, <3>6, <3>7
  <2> QED
    BY <2>1, <2>2
<1>3. ASSUME NEW c \in Callers
      PROVE  call'[c] \in CallType /\ CallIsRecent(call'[c])
  <2> DEFINE k == call[c]
             read == k.read
             older == [k EXCEPT !.flight = @ + 1, !.value = Older(@)]
  <2>1. k \in CallType /\ CallIsRecent(k)
    BY DEF MemoInv, MemoShape
  <2>2. CASE k.pc \notin {"asking", "answered"}
    <3>1. call'[c] = k
      BY <2>2 DEF Tick
    <3> QED
      BY <2>1, <3>1
  <2>3. CASE k.pc \in {"asking", "answered"}
    <3>1. call'[c] = older
      BY <2>3 DEF Tick
    <3>2. read \in Reads /\ k.value \in Seq(Answers) /\ k.layer \in Int /\ k.flight \in 0 .. Latency
      BY <2>3, Begun
    <3>3. k.flight + 1 \in 0 .. Latency
      <4>1. k.flight < Latency
        BY <2>3 DEF Tick
      <4> QED
        BY <4>1, <3>2, <1>1
    <3>4. older = Held(read, k.pc, k.layer, Older(k.value), k.flight + 1)
      <4> DEFINE R == [pc : {k.pc}, read : {read}, layer : {k.layer},
                       value : {Older(k.value)}, flight : {k.flight + 1}]
      <4>1. older \in R
        BY <2>1 DEF CallType
      <4>2. Held(read, k.pc, k.layer, Older(k.value), k.flight + 1) \in R
        BY DEF Held
      <4>3. \A x, y \in R : x = y
        OBVIOUS
      <4> QED
        BY <4>1, <4>2, <4>3
    <3>5. /\ Older(k.value) \in Seq(Answers) /\ Len(Older(k.value)) = Len(k.value)
          /\ Len(k.value) \in Nat
          /\ \A bound \in Int : Aged(k.value, bound) => Aged(Older(k.value), bound + 1)
          /\ \A n : Of(k.value, n) => Of(Older(k.value), n)
      BY <3>2, OlderFacts
    <3>6. older \in CallType
      BY <2>1, <3>2, <3>3, <3>5 DEF CallType
    <3>7. read.requests \in {1, 2}
      BY <3>2, KeysTell
    <3>8. \A n \in {0, 1, 2} : n * Latency \in Int
      BY <1>1
    <3>9. \A a \in Int : \A f \in 0 .. Latency : a + f \in Int /\ (a + f) + 1 = a + (f + 1)
      BY <1>1
    <3> HIDE DEF older
    <3>10. CASE k.pc = "asking"
      <4>1. Len(k.value) < read.requests /\ Aged(k.value, Len(k.value) * Latency + k.flight)
            /\ Of(k.value, read.network)
        BY <2>1, <3>10 DEF CallIsRecent
      <4>2. Len(k.value) \in {0, 1, 2}
        <5>1. \A m \in {1, 2} : \A n \in Nat : n < m => n \in {0, 1, 2}
          OBVIOUS
        <5> QED
          BY <5>1, <4>1, <3>5, <3>7
      <4>3. Aged(Older(k.value), Len(k.value) * Latency + (k.flight + 1))
        <5> DEFINE a == Len(k.value) * Latency
        <5>1. a \in Int
          BY <4>2, <3>8
        <5>2. Aged(k.value, a + k.flight)
          BY <4>1
        <5> HIDE DEF a
        <5>3. a + k.flight \in Int /\ (a + k.flight) + 1 = a + (k.flight + 1)
          BY <5>1, <3>2, <3>9
        <5>4. Aged(Older(k.value), (a + k.flight) + 1)
          BY <5>2, <5>3, <3>5
        <5> QED
          BY <5>3, <5>4 DEF a
      <4>4. CallIsRecent(Held(read, "asking", k.layer, Older(k.value), k.flight + 1))
        BY <4>1, <4>3, <3>2, <3>5, HeldIsRecent
      <4> QED
        BY <4>4, <3>1, <3>4, <3>6, <3>10
    <3>11. CASE k.pc = "answered"
      <4>1. Len(k.value) \in 1 .. read.requests
            /\ Aged(k.value, (Len(k.value) - 1) * Latency + k.flight)
            /\ Of(k.value, read.network)
        BY <2>1, <3>11 DEF CallIsRecent
      <4>2. Len(k.value) - 1 \in {0, 1, 2}
        <5>1. \A m \in {1, 2} : \A n \in 1 .. m : n - 1 \in {0, 1, 2}
          OBVIOUS
        <5> QED
          BY <5>1, <4>1, <3>7
      <4>3. Aged(Older(k.value), (Len(k.value) - 1) * Latency + (k.flight + 1))
        <5> DEFINE a == (Len(k.value) - 1) * Latency
        <5>1. a \in Int
          BY <4>2, <3>8
        <5>2. Aged(k.value, a + k.flight)
          BY <4>1
        <5> HIDE DEF a
        <5>3. a + k.flight \in Int /\ (a + k.flight) + 1 = a + (k.flight + 1)
          BY <5>1, <3>2, <3>9
        <5>4. Aged(Older(k.value), (a + k.flight) + 1)
          BY <5>2, <5>3, <3>5
        <5> QED
          BY <5>3, <5>4 DEF a
      <4>4. CallIsRecent(Held(read, "answered", k.layer, Older(k.value), k.flight + 1))
        BY <4>1, <4>3, <3>2, <3>5, HeldIsRecent
      <4> QED
        BY <4>4, <3>1, <3>4, <3>6, <3>11
    <3> QED
      BY <2>3, <3>10, <3>11
  <2> QED
    BY <2>2, <2>3
<1>4. cache' \in [AllKeys -> {Nothing} \cup [value : Seq(Answers), age : 0 .. Ttl]]
  BY <1>2 DEF Tick
<1>5. call' \in [Callers -> CallType]
  BY <1>3 DEF Tick
<1>6. exposes' = exposes
  BY DEF Tick
<1> QED
  BY <1>2, <1>3, <1>4, <1>5, <1>6 DEF MemoInv, MemoShape

LEMMA MemoStep ==
  ASSUME MemoInv, [MemoNext]_memoVars
  PROVE  MemoInv'
<1>1. ASSUME NEW n \in Networks, Publish(n)
      PROVE  MemoInv'
  <2>1. exposes' \in [Networks -> BOOLEAN] /\ UNCHANGED <<cache, call>>
    BY <1>1 DEF Publish, MemoInv, MemoShape
  <2> QED
    BY <2>1 DEF MemoInv, MemoShape
<1>2. CASE UNCHANGED memoVars
  BY <1>2 DEF MemoInv, MemoShape, memoVars
<1> QED
  BY <1>1, <1>2, BeginKeeps, LookupKeeps, AnswerKeeps, FailKeeps, ArriveKeeps, StoreKeeps,
     ReturnKeeps, TickKeeps DEF MemoNext

LEMMA MemoStarts == MemoInit => MemoInv
<1>1. AtRest \in CallType /\ CallIsRecent(AtRest)
  BY MemoAssumption, NoAnswers DEF AtRest, CallType, Pcs, CallIsRecent
<1> QED
  BY <1>1 DEF MemoInit, MemoInv, MemoShape

LEMMA MemoInvImplies == MemoInv => CachedAnswersAreRecent
<1> SUFFICES ASSUME MemoInv, NEW c \in Callers, call[c].pc \in {"done", "threw"},
                    NEW i \in DOMAIN call[c].value
             PROVE  /\ call[c].value[i].age
                         <= (Len(call[c].read.keys) - (IF call[c].pc = "threw" THEN 1 ELSE 0)) * Ttl
                              + call[c].read.requests * Latency
                    /\ ThroughModule(call[c].read)
                         \/ call[c].value[i].network = call[c].read.network
  BY DEF CachedAnswersAreRecent
<1>1. CallIsRecent(call[c])
  BY DEF MemoInv
<1>2. ThroughModule(call[c].read) \/ call[c].value[i].network = call[c].read.network
  BY <1>1 DEF CallIsRecent, Of
<1>3. CASE call[c].pc = "done"
  <2>1. call[c].value[i].age <= Spent(call[c].read, 0)
    BY <1>1, <1>3 DEF CallIsRecent, Aged
  <2> QED
    BY <1>2, <1>3, <2>1 DEF Spent
<1>4. CASE call[c].pc = "threw"
  <2>1. call[c].value[i].age <= Spent(call[c].read, 1)
    BY <1>1, <1>4 DEF CallIsRecent, Aged
  <2> QED
    BY <1>2, <1>4, <2>1 DEF Spent
<1> QED
  BY <1>3, <1>4

\* What a memoized read returns is as recent as its layers of cache and its own
\* requests allow, and but for the module's key from its own network, for any
\* number of callers, any networks and any times.
THEOREM CachedAnswersAreRecentHolds == MemoSpec => []CachedAnswersAreRecent
<1>1. MemoInit => MemoInv
  BY MemoStarts
<1>2. MemoInv /\ [MemoNext]_memoVars => MemoInv'
  BY MemoStep
<1>3. MemoInv => CachedAnswersAreRecent
  BY MemoInvImplies
<1> QED
  BY <1>1, <1>2, <1>3, PTL DEF MemoSpec
-----------------------------------------------------------------------------
(***************************************************************************)
(* The name service.  First its calendar: where the months start, which    *)
(* month a time is in, and how far back the threshold of a list can be.    *)
(***************************************************************************)
Months == 1 .. Len(MonthDays)

LEMMA ConstantFacts ==
  /\ SecondMs \in Nat \ {0} /\ DayMs \in Nat \ {0} /\ DayMs > 1 /\ GraceDays \in Nat
  /\ Expiries \subseteq Nat /\ MonthDays \in Seq(Nat \ {0})
  /\ \A mine \in Asked : mine.expirationDate \in Nat
<1>1. DayMs \in Nat \ {0, 1} => DayMs \in Nat \ {0} /\ DayMs > 1
  OBVIOUS
<1> QED
  BY <1>1, AnsAssumption DEF AnsAssumption

LEMMA MonthCount == Len(MonthDays) \in Nat /\ \A m \in Months : MonthDays[m] \in Nat \ {0}
  BY ConstantFacts DEF Months

\* A month starts where the one before ends.
LEMMA MonthStarts ==
  /\ MonthStart \in [1 .. (Len(MonthDays) + 1) -> Nat]
  /\ MonthStart[1] = 0
  /\ \A m \in Months : MonthStart[m + 1] = MonthStart[m] + MonthDays[m]
<1> DEFINE n == Len(MonthDays) + 1
           step == [p \in Nat \X (1 .. n) |-> IF p[2] = 1 THEN 0 ELSE p[1] + MonthDays[p[2] - 1]]
<1>1. n \in Nat /\ 1 \in 1 .. n /\ \A m \in 1 .. n : m # 1 => m - 1 \in Months
  BY MonthCount DEF Months
<1>2. step \in Steps(Nat, n)
  <2>1. ASSUME NEW p \in Nat \X (1 .. n)
        PROVE  (IF p[2] = 1 THEN 0 ELSE p[1] + MonthDays[p[2] - 1]) \in Nat
    BY <1>1, MonthCount
  <2> QED
    BY <2>1 DEF Steps
<1>3. \A v \in Nat, i \in 1 .. n :
         step[<<v, i>>] = IF i = 1 THEN 0 ELSE v + MonthDays[i - 1]
  OBVIOUS
<1> HIDE DEF step
<1>4. PICK f \in [1 .. n -> Nat] : MadeBy(f, n, 0, step)
  BY <1>1, <1>2, Recursion
<1>5. ASSUME NEW i \in 1 .. n
      PROVE  f[i] = IF i = 1 THEN 0 ELSE f[i - 1] + MonthDays[i - 1]
  <2>1. CASE i = 1
    BY <1>4, <2>1 DEF MadeBy
  <2>2. CASE i # 1
    <3>1. i - 1 \in 1 .. n
      BY <1>1, <2>2
    <3>2. f[i - 1] \in Nat
      BY <3>1
    <3> QED
      BY <1>3, <1>4, <2>2, <3>2 DEF MadeBy
  <2> QED
    BY <2>1, <2>2
<1>6. f = [m \in 1 .. n |-> IF m = 1 THEN 0 ELSE f[m - 1] + MonthDays[m - 1]]
  BY <1>5
<1>7. MonthStart = [m \in 1 .. n |-> IF m = 1 THEN 0 ELSE MonthStart[m - 1] + MonthDays[m - 1]]
  BY <1>6 DEF MonthStart
<1>8. MonthStart[1] = 0
  BY <1>1, <1>7
<1>9. \A m \in Months : MonthStart[m + 1] = MonthStart[m] + MonthDays[m]
  <2>1. \A m \in Months : m + 1 \in 1 .. n /\ m + 1 # 1 /\ (m + 1) - 1 = m
    BY MonthCount DEF Months
  <2> QED
    BY <1>7, <2>1
<1> DEFINE Counted == {m \in 1 .. n : MonthStart[m] \in Nat}
<1>10. 1 .. n \subseteq Counted
  <2>1. 1 \in Counted
    BY <1>1, <1>8
  <2>2. ASSUME NEW i \in 1 .. (n - 1), i \in Counted
        PROVE  i + 1 \in Counted
    <3>1. i \in Months /\ i + 1 \in 1 .. n
      BY MonthCount DEF Months
    <3> QED
      BY <1>9, <2>2, <3>1, MonthCount
  <2>3. 1 \in Int /\ n \in Int
    BY <1>1
  <2> HIDE DEF Counted, n
  <2> QED
    BY <2>1, <2>2, <2>3, Induction
<1>11. MonthStart \in [1 .. n -> Nat]
  BY <1>7, <1>10
<1> QED
  BY <1>8, <1>9, <1>11

LEMMA MonthsFollow ==
  ASSUME NEW a \in 1 .. (Len(MonthDays) + 1), NEW b \in 1 .. (Len(MonthDays) + 1), a <= b
  PROVE  MonthStart[a] <= MonthStart[b]
<1> DEFINE n == Len(MonthDays) + 1
           S == {m \in a .. n : MonthStart[a] <= MonthStart[m]}
<1>1. a \in S
  BY MonthStarts, MonthCount
<1>2. ASSUME NEW i \in a .. (n - 1), i \in S
      PROVE  i + 1 \in S
  <2>1. i \in Months /\ i + 1 \in a .. n
    BY MonthCount DEF Months
  <2>2. MonthStart[a] \in Nat /\ MonthStart[i] \in Nat /\ MonthStart[i + 1] = MonthStart[i] + MonthDays[i]
    BY <2>1, MonthStarts, MonthCount DEF Months
  <2> QED
    BY <1>2, <2>1, <2>2, MonthCount
<1>3. a \in Int /\ b \in Int /\ n \in Int
  BY MonthCount
<1>4. \A i \in a .. (b - 1) : i \in a .. (n - 1)
  BY MonthCount
<1>5. b \in a .. b
  BY <1>3
<1> HIDE DEF S, n
<1>6. a .. b \subseteq S
  BY <1>1, <1>2, <1>3, <1>4, Induction
<1> QED
  BY <1>5, <1>6 DEF S

\* A time within the calendar is in a month.
LEMMA MonthOfFacts ==
  ASSUME NEW ms \in Nat, ms < LastDay * DayMs
  PROVE  /\ MonthOf(ms) \in Months
         /\ MonthStart[MonthOf(ms)] \in Nat
         /\ MonthStart[MonthOf(ms)] * DayMs <= ms
         /\ ms < MonthStart[MonthOf(ms) + 1] * DayMs
<1> DEFINE n == Len(MonthDays) + 1
           T == {m \in 1 .. n : ms < MonthStart[m] * DayMs}
<1>1. n \in Nat /\ n \in T
  BY MonthCount DEF LastDay
<1>2. T # {} /\ T \in SUBSET Nat
  BY <1>1
<1>3. PICK m \in T : \A k \in T : m <= k
  <2> HIDE DEF T
  <2> QED
    BY <1>2, LeastNumber
<1>4. m # 1
  <2>1. MonthStart[1] * DayMs = 0
    BY MonthStarts, ConstantFacts
  <2> QED
    BY <1>3, <2>1
<1>5. m - 1 \in 1 .. n /\ m - 1 \in Months /\ ~(m <= m - 1) /\ (m - 1) + 1 = m
  BY <1>1, <1>3, <1>4 DEF Months
<1>6. m - 1 \notin T
  BY <1>3, <1>5
<1>7. ~(ms < MonthStart[m - 1] * DayMs)
  BY <1>5, <1>6
<1>8. \A k \in Months : MonthStart[k] \in Nat /\ MonthStart[k] * DayMs \in Nat
  <2>1. \A k \in Months : MonthStart[k] \in Nat
    BY MonthStarts, MonthCount DEF Months
  <2> QED
    BY <2>1, ConstantFacts
<1>9. MonthStart[m - 1] * DayMs <= ms /\ ms < MonthStart[(m - 1) + 1] * DayMs
  BY <1>3, <1>5, <1>7, <1>8
<1>10. \E k \in 1 .. Len(MonthDays) :
          MonthStart[k] * DayMs <= ms /\ ms < MonthStart[k + 1] * DayMs
  BY <1>5, <1>9 DEF Months
<1>11. /\ MonthOf(ms) \in 1 .. Len(MonthDays)
       /\ MonthStart[MonthOf(ms)] * DayMs <= ms
       /\ ms < MonthStart[MonthOf(ms) + 1] * DayMs
  BY <1>10 DEF MonthOf
<1> QED
  BY <1>8, <1>11 DEF Months

\* A later time is not in an earlier month.
LEMMA MonthsInOrder ==
  ASSUME NEW s \in Nat, NEW t \in Nat, s <= t, t < LastDay * DayMs
  PROVE  MonthStart[MonthOf(s)] <= MonthStart[MonthOf(t)]
<1>1. LastDay \in Nat /\ LastDay * DayMs \in Nat
  <2>1. LastDay \in Nat
    BY MonthStarts, MonthCount DEF LastDay
  <2> QED
    BY <2>1, ConstantFacts
<1>2. s < LastDay * DayMs
  BY <1>1
<1> DEFINE a == MonthOf(s)
           b == MonthOf(t)
<1>3. /\ a \in Months /\ MonthStart[a] * DayMs <= s
      /\ b \in Months /\ t < MonthStart[b + 1] * DayMs
  BY <1>2, MonthOfFacts
<1> HIDE DEF a, b
<1> SUFFICES ASSUME ~(a <= b) PROVE FALSE
  <2>1. a <= b => MonthStart[a] <= MonthStart[b]
    BY <1>3, MonthsFollow, MonthCount DEF Months
  <2> QED
    BY <2>1 DEF a, b
<1>4. b + 1 \in 1 .. (Len(MonthDays) + 1) /\ a \in 1 .. (Len(MonthDays) + 1) /\ b + 1 <= a
  BY <1>3, MonthCount DEF Months
<1>5. MonthStart[b + 1] <= MonthStart[a]
  BY <1>4, MonthsFollow
<1>6. MonthStart[b + 1] \in Nat /\ MonthStart[a] \in Nat
  BY <1>4, MonthStarts
<1>7. MonthStart[b + 1] * DayMs <= MonthStart[a] * DayMs
  BY <1>5, <1>6, ConstantFacts, MultipleFacts
<1>8. MonthStart[b + 1] * DayMs \in Int /\ MonthStart[a] * DayMs \in Int
  BY <1>6, ConstantFacts, MultipleFacts
<1> QED
  BY <1>3, <1>7, <1>8

\* The threshold is the grace period back, but for less than a day.
LEMMA ThresholdIsLate ==
  ASSUME NEW ms \in Nat, NEW late \in {0, 1}, ms <= (LastDay - 1) * DayMs
  PROVE  LET threshold == setDate(ms, getDate(ms + late) - GraceDays)
         IN  threshold \in Int /\ threshold + GraceDays * DayMs <= ms + DayMs
<1> DEFINE q == ms \div DayMs
           p == (ms + late) \div DayMs
           a == MonthStart[MonthOf(ms)]
           b == MonthStart[MonthOf(ms + late)]
           threshold == setDate(ms, getDate(ms + late) - GraceDays)
           k == a + (p - b + 1 - GraceDays) - 1
<1>0. DayMs \in Nat \ {0} /\ 1 < DayMs /\ GraceDays \in Nat
  BY ConstantFacts
<1>1. ms < LastDay * DayMs /\ ms + late < LastDay * DayMs /\ ms + late \in Nat
  <2>1. LastDay \in Nat
    BY MonthStarts, MonthCount DEF LastDay
  <2>2. (LastDay - 1) * DayMs + DayMs = LastDay * DayMs /\ (LastDay - 1) * DayMs \in Int
    BY <1>0, <2>1
  <2> QED
    BY <1>0, <2>2
<1>2. a \in Nat /\ b \in Nat /\ a <= b
  <2>1. ms <= ms + late
    OBVIOUS
  <2>2. MonthStart[MonthOf(ms)] \in Nat /\ MonthStart[MonthOf(ms + late)] \in Nat
    BY <1>1, MonthOfFacts
  <2> QED
    BY <1>1, <2>1, <2>2, MonthsInOrder
<1>3. q \in Nat /\ p \in Nat /\ p <= q + 1 /\ ms = q * DayMs + (ms % DayMs)
  <2>1. q \in Nat /\ DayMs * q <= ms /\ ms < DayMs * q + DayMs
    BY <1>0, QuotientFacts
  <2>2. p \in Nat /\ DayMs * p <= ms + late
    BY <1>0, <1>1, QuotientFacts
  <2>3. ms = q * DayMs + (ms % DayMs)
    BY <1>0
  <2>4. p * DayMs < (q + 1) * DayMs + DayMs
    <3>1. DayMs * p \in Int /\ DayMs * q \in Int /\ DayMs * p = p * DayMs
          /\ (q + 1) * DayMs = DayMs * q + DayMs
      BY <1>0, <2>1, <2>2
    <3> QED
      BY <1>0, <2>1, <2>2, <3>1
  <2>5. p <= q + 1
    BY <1>0, <2>1, <2>2, <2>4, MultipleFacts
  <2> QED
    BY <2>1, <2>2, <2>3, <2>5
<1>4. threshold = k * DayMs + (ms % DayMs)
  <2>1. getDate(ms + late) = p - b + 1
    BY DEF getDate
  <2>2. threshold = (a + ((p - b + 1) - GraceDays) - 1) * DayMs + (ms % DayMs)
    BY <2>1 DEF setDate
  <2>3. a + ((p - b + 1) - GraceDays) - 1 = k
    <3> HIDE DEF a, b, q, p
    <3> QED
      BY <1>0, <1>2, <1>3
  <2> QED
    BY <2>2, <2>3
<1>5. ms % DayMs \in Nat
  BY <1>0
<1> HIDE DEF a, b, q, p, threshold
<1>6. k \in Int /\ k <= q + 1 - GraceDays
  BY <1>0, <1>2, <1>3
<1> HIDE DEF k
<1>7. k * DayMs \in Int /\ k * DayMs <= (q + 1 - GraceDays) * DayMs
  BY <1>0, <1>3, <1>6, MultipleFacts
<1>8. (q + 1 - GraceDays) * DayMs = q * DayMs + DayMs - GraceDays * DayMs
  BY <1>0, <1>3
<1>9. q * DayMs \in Int /\ GraceDays * DayMs \in Int
  BY <1>0, <1>3
<1>10. threshold \in Int /\ threshold + GraceDays * DayMs <= ms + DayMs
  BY <1>0, <1>3, <1>4, <1>5, <1>7, <1>8, <1>9
<1> QED
  BY <1>10 DEF threshold

\* Rounding to seconds: to the nearest one, and never beyond a whole number of them.
LEMMA RoundedFacts ==
  ASSUME NEW ms \in Nat, NEW e \in Nat
  PROVE  /\ Rounded(ms) \in Nat
         /\ 2 * (Rounded(ms) * SecondMs - ms) <= SecondMs
         /\ 2 * (Rounded(ms) * SecondMs - ms) >= -SecondMs
         /\ ms <= e * SecondMs => Rounded(ms) <= e
         /\ ms = e * SecondMs => Rounded(ms) = e
<1> DEFINE d == 2 * SecondMs
           r == Rounded(ms)
<1>1. SecondMs \in Nat \ {0} /\ d \in Nat \ {0}
  BY ConstantFacts
<1>2. r \in Nat /\ d * r <= 2 * ms + SecondMs /\ 2 * ms + SecondMs < d * r + d
  <2>1. 2 * ms + SecondMs \in Nat
    BY <1>1
  <2> HIDE DEF d
  <2>2. (2 * ms + SecondMs) \div d \in Nat
        /\ d * ((2 * ms + SecondMs) \div d) <= 2 * ms + SecondMs
        /\ 2 * ms + SecondMs < d * ((2 * ms + SecondMs) \div d) + d
    BY <1>1, <2>1, QuotientFacts
  <2> QED
    BY <2>2 DEF Rounded, d
<1> HIDE DEF r
<1>3. d * r = 2 * (r * SecondMs) /\ r * SecondMs \in Nat
  BY <1>1, <1>2
<1>4. /\ 2 * (r * SecondMs - ms) <= SecondMs
      /\ 2 * (r * SecondMs - ms) >= -SecondMs
  BY <1>1, <1>2, <1>3
<1>5. ASSUME ms <= e * SecondMs
      PROVE  r <= e
  <2>1. d * r = r * d /\ e * d = 2 * (e * SecondMs) /\ e * SecondMs \in Nat
    BY <1>1, <1>2
  <2>2. r * d < e * d + d
    BY <1>1, <1>2, <1>5, <2>1
  <2> QED
    BY <1>1, <1>2, <2>2, MultipleFacts
<1>6. ASSUME ms = e * SecondMs
      PROVE  e <= r
  <2>1. d * r = r * d /\ e * d = 2 * (e * SecondMs) /\ e * SecondMs \in Nat
    BY <1>1, <1>2
  <2>2. e * d < r * d + d
    BY <1>1, <1>2, <1>6, <2>1
  <2> QED
    BY <1>1, <1>2, <2>2, MultipleFacts
<1>7. e * SecondMs \in Nat
  BY <1>1
<1>8. ms = e * SecondMs => r = e
  BY <1>2, <1>5, <1>6, <1>7
<1> QED
  BY <1>2, <1>4, <1>5, <1>8 DEF r

-----------------------------------------------------------------------------
\* What a view of a call says of a state of the contract.
ViewIn(contract, mine) ==
    CASE mine.kind = "registerName" -> contract.domain
      [] mine.kind \in Views ->
           IF subdomainName(mine.name) = Undefined THEN contract.domain ELSE contract.subdomain
      [] mine.kind = "getPrimaryName" -> [primary |-> contract.primary]
      [] mine.kind \in Lists -> [grace |-> GraceDays]

\* Kinds of calls that answer with what the contract held.
Viewing == Views \cup {"getPrimaryName"}

\* During a call: the present contract is among those of the call, an answer is of
\* one of them, only a subdomain is registered after a view, and the time of a list
\* and its threshold are in the calendar.
Underway ==
    /\ names \in Contracts /\ known \subseteq Contracts
    /\ ansPc \in {"view", "query"} => names \in known /\ asked \in Asked
    /\ ansPc = "view" =>
          viewed \in {Undefined, <<>>} \/ \E contract \in known : viewed = <<ViewIn(contract, asked)>>
    /\ ansPc = "view" /\ asked.kind = "registerName" => HasSubdomainPolicy(asked)
    /\ ansPc = "view" /\ asked.kind \in Lists =>
          time \in (GraceDays * DayMs) .. ((LastDay - 1) * DayMs)
    /\ ansPc = "query" =>
          /\ asked.kind \in Lists
          /\ oldest \in Int /\ time \in Int /\ oldest + GraceDays * DayMs <= time + DayMs

AnsInv == Underway /\ NamesKeepTheirTimes

LEMMA AnsInitially == AnsInit => AnsInv
  BY DEF AnsInit, AnsInv, Underway, NamesKeepTheirTimes, SubdomainsEndWithTheirDomain,
         NamesInGraceAreListed, ViewsAreTrue

\* Results that the three properties say nothing about.
Plain(mine, result) ==
    /\ result[1] # "register_subdomain"
    /\ mine.kind \in Lists \cup Viewing => result = Threw

LEMMA PlainHolds ==
  ASSUME ansPc' = "done", Plain(asked', came')
  PROVE  NamesKeepTheirTimes'
<1>1. SubdomainsEndWithTheirDomain' /\ NamesInGraceAreListed' /\ ViewsAreTrue'
  BY DEF Plain, SubdomainsEndWithTheirDomain, NamesInGraceAreListed, ViewsAreTrue, Viewing
<1> QED
  BY <1>1 DEF NamesKeepTheirTimes

LEMMA NotDone ==
  ASSUME ansPc' # "done"
  PROVE  NamesKeepTheirTimes'
  BY DEF NamesKeepTheirTimes, SubdomainsEndWithTheirDomain, NamesInGraceAreListed, ViewsAreTrue

\* The start of a call: it is over at once, or it asks the contract.
LEMMA BeginHolds ==
  ASSUME AnsInv, NEW mine, NEW result, Begin(mine, result),
         result # Asks => Plain(mine, result),
         result = Asks /\ mine.kind = "registerName" => HasSubdomainPolicy(mine),
         mine.kind \in Lists => time' \in (GraceDays * DayMs) .. ((LastDay - 1) * DayMs)
  PROVE  AnsInv'
<1> USE DEF Begin
<1>1. NamesKeepTheirTimes'
  <2>1. CASE result = Asks
    BY <2>1, NotDone
  <2>2. CASE result # Asks
    BY <2>2, PlainHolds
  <2> QED
    BY <2>1, <2>2
<1>2. Underway'
  <2>1. names \in Contracts
    BY DEF AnsInv, Underway
  <2>2. ansPc' = "view" => result = Asks
    OBVIOUS
  <2>3. ansPc' # "query"
    OBVIOUS
  <2>4. ansPc' = "view" /\ asked'.kind = "registerName" => HasSubdomainPolicy(asked)'
    BY <2>2 DEF HasSubdomainPolicy
  <2> QED
    BY <2>1, <2>2, <2>3, <2>4 DEF Underway
<1> QED
  BY <1>1, <1>2 DEF AnsInv

LEMMA StartsHold ==
  ASSUME AnsInv, NEW mine \in Asked,
         \/ registerName(mine) \/ renewDomain(mine) \/ setPrimaryName(mine)
         \/ setTargetAddress(mine) \/ viewName(mine) \/ getPrimaryName(mine) \/ listNames(mine)
  PROVE  AnsInv'
<1> USE DEF Plain, Threw, Asks, Transaction, Viewing, Views, Lists
<1>1. CASE registerName(mine)
  <2> DEFINE sub == subdomainName(mine.name) # Undefined
             fits == Accepts(mine) /\ (sub <=> HasSubdomainPolicy(mine))
             result == CASE ~fits -> Threw
                         [] fits /\ sub -> Asks
                         [] fits /\ ~sub ->
                              IF mine.years # 1 THEN Threw
                              ELSE Transaction("register_domain", <<domainName(mine.name), mine.years>>)
  <2>1. Begin(mine, result) /\ mine.kind = "registerName"
    BY <1>1, Zenon DEF registerName
  <2> HIDE DEF sub
  <2>2. result # Asks => Plain(mine, result)
    BY <2>1
  <2>3. result = Asks => HasSubdomainPolicy(mine)
    OBVIOUS
  <2> HIDE DEF result
  <2> QED
    BY <2>1, <2>2, <2>3, BeginHolds
<1>2. CASE renewDomain(mine)
  <2> DEFINE result == IF Accepts(mine) /\ subdomainName(mine.name) = Undefined /\ mine.years = 1
                         THEN Transaction("renew_domain", <<domainName(mine.name), mine.years>>)
                         ELSE Threw
  <2>1. Begin(mine, result) /\ mine.kind = "renewDomain"
    BY <1>2, Zenon DEF renewDomain
  <2>2. result # Asks /\ Plain(mine, result)
    BY <2>1
  <2> HIDE DEF result
  <2> QED
    BY <2>1, <2>2, BeginHolds
<1>3. CASE setPrimaryName(mine)
  <2> DEFINE result == CASE NoName(mine.name) /\ getRouterAddress(mine.network) ->
                              Transaction("clear_primary_name", <<>>)
                         [] ~NoName(mine.name) /\ Accepts(mine) ->
                              Transaction("set_primary_name", NameArguments(mine.name))
                         [] OTHER -> Threw
  <2>1. Begin(mine, result) /\ mine.kind = "setPrimaryName"
    BY <1>3, Zenon DEF setPrimaryName
  <2>2. result # Asks /\ Plain(mine, result)
    BY <2>1
  <2> HIDE DEF result
  <2> QED
    BY <2>1, <2>2, BeginHolds
<1>4. CASE setTargetAddress(mine)
  <2> DEFINE result == IF Accepts(mine)
                         THEN Transaction("set_target_addr", NameArguments(mine.name)) ELSE Threw
  <2>1. Begin(mine, result) /\ mine.kind = "setTargetAddress"
    BY <1>4, Zenon DEF setTargetAddress
  <2>2. result # Asks /\ Plain(mine, result)
    BY <2>1
  <2> HIDE DEF result
  <2> QED
    BY <2>1, <2>2, BeginHolds
<1>5. CASE viewName(mine)
  <2> DEFINE result == IF Accepts(mine) THEN Asks ELSE Threw
  <2>1. Begin(mine, result) /\ mine.kind \in Views
    BY <1>5, Zenon DEF viewName
  <2>2. result # Asks => Plain(mine, result)
    BY <2>1
  <2> HIDE DEF result
  <2> QED
    BY <2>1, <2>2, BeginHolds
<1>6. CASE getPrimaryName(mine)
  <2> DEFINE result == IF getRouterAddress(mine.network) THEN Asks ELSE Threw
  <2>1. Begin(mine, result) /\ mine.kind = "getPrimaryName"
    BY <1>6, Zenon DEF getPrimaryName
  <2>2. result # Asks => Plain(mine, result)
    BY <2>1
  <2> HIDE DEF result
  <2> QED
    BY <2>1, <2>2, BeginHolds
<1>7. CASE listNames(mine)
  <2> DEFINE result == IF getRouterAddress(mine.network) THEN Asks ELSE Threw
  <2>1. Begin(mine, result) /\ mine.kind \in Lists
        /\ time' \in (GraceDays * DayMs) .. ((LastDay - 1) * DayMs)
    BY <1>7, Zenon DEF listNames
  <2>2. result # Asks => Plain(mine, result)
    BY <2>1
  <2> HIDE DEF result
  <2> QED
    BY <2>1, <2>2, BeginHolds
<1> QED
  BY <1>1, <1>2, <1>3, <1>4, <1>5, <1>6, <1>7

LEMMA AnswerViewHolds == AnsInv /\ AnswerView => AnsInv'
<1> SUFFICES ASSUME AnsInv, AnswerView PROVE AnsInv'
  OBVIOUS
<1>1. ViewOf(asked) = ViewIn(names, asked)
  BY DEF ViewOf, ViewIn, Registered
<1>2. viewed' = <<>> \/ viewed' = <<ViewIn(names, asked)>>
  BY <1>1 DEF AnswerView
<1>3. names \in known /\ asked' = asked /\ known' = known
  BY DEF AnswerView, AnsInv, Underway
<1> DEFINE answer == ViewIn(names, asked)
<1>4. viewed' = <<>> \/ \E contract \in known : viewed' = <<ViewIn(contract, asked)>>
  BY <1>2, <1>3
<1>5. viewed' \in {Undefined, <<>>} \/ \E contract \in known' : viewed' = <<ViewIn(contract, asked')>>
  BY <1>3, <1>4
<1>6. (viewed \in {Undefined, <<>>} \/ \E contract \in known : viewed = <<ViewIn(contract, asked)>>)'
  BY <1>5 DEF ViewIn
<1>7. ansPc' # "done"
  BY DEF AnswerView
<1>8. HasSubdomainPolicy(asked)' <=> HasSubdomainPolicy(asked)
  BY <1>3 DEF HasSubdomainPolicy
<1>9. Underway'
  BY <1>3, <1>6, <1>8 DEF AnswerView, AnsInv, Underway
<1> QED
  BY <1>7, <1>9, NotDone DEF AnsInv

\* The end of a call after an answer.
LEMMA FinishHolds ==
  ASSUME AnsInv, NEW result, Finish(result), NamesKeepTheirTimes'
  PROVE  AnsInv'
  BY DEF AnsInv, Underway, Finish

\* What was viewed when a call goes on: nothing, or what one of the contract's
\* states of this time says.
LEMMA ViewedFacts ==
  ASSUME AnsInv, NEW kinds, Answered(kinds)
  PROVE  /\ asked \in Asked /\ asked.kind \in kinds
         /\ viewed = <<>> \/ \E contract \in known \cap Contracts : viewed = <<ViewIn(contract, asked)>>
  BY DEF AnsInv, Underway, Answered

LEMMA registerSubdomainHolds == AnsInv /\ registerSubdomain => AnsInv'
<1> SUFFICES ASSUME AnsInv, registerSubdomain PROVE AnsInv'
  OBVIOUS
<1> DEFINE tldExpiration == getExpiration(viewed)
           date == IF asked.policy = "subdomain:independent" THEN asked.expirationDate
                   ELSE tldExpiration
           follows == asked.policy = "subdomain:follow-domain"
           arguments == NameArguments(asked.name) \o <<Rounded(date), follows>>
           refused == tldExpiration \in {Undefined, 0} \/ date > tldExpiration
           result == IF refused THEN Threw ELSE Transaction("register_subdomain", arguments)
<1>1. Finish(result) /\ Answered({"registerName"})
  BY Zenon DEF registerSubdomain
<1>2. /\ asked \in Asked /\ asked.kind = "registerName" /\ HasSubdomainPolicy(asked)
      /\ viewed = <<>> \/ \E contract \in known \cap Contracts : viewed = <<ViewIn(contract, asked)>>
  BY <1>1, ViewedFacts DEF AnsInv, Underway, Answered
<1>3. came' = result /\ ansPc' = "done" /\ asked' = asked /\ known' = known
  BY <1>1, Zenon DEF Finish
<1>4. CASE refused
  <2>1. result = Threw
    BY <1>4
  <2>2. Plain(asked', came')
    BY <1>2, <1>3, <2>1 DEF Plain, Threw, Lists, Viewing, Views
  <2> QED
    BY <1>1, <1>3, <2>2, PlainHolds, FinishHolds
<1>5. CASE ~refused
  <2>1. PICK contract \in known \cap Contracts : viewed = <<ViewIn(contract, asked)>>
    <3>1. viewed = <<>> => tldExpiration = Undefined
      BY DEF getExpiration
    <3> QED
      BY <1>2, <1>5, <3>1
  <2>2. viewed = <<contract.domain>>
    BY <1>2, <2>1 DEF ViewIn, Views, Lists
  <2>3. contract.domain # Undefined /\ tldExpiration = contract.domain.expires * SecondMs
    <3>1. contract.domain = Undefined => tldExpiration = Undefined
      BY <2>2 DEF getExpiration
    <3>2. tldExpiration # Undefined
      BY <1>5
    <3>3. viewed \notin {<<>>, <<Undefined>>}
      BY <3>2 DEF getExpiration
    <3> QED
      BY <2>2, <3>1, <3>2, <3>3 DEF getExpiration
  <2>4. contract.domain.expires \in Nat
    BY <2>3, ConstantFacts DEF Contracts, Registration
  <2>5. date \in Nat /\ date <= contract.domain.expires * SecondMs
    <3>1. contract.domain.expires * SecondMs \in Nat
      BY <2>4, ConstantFacts
    <3>2. asked.expirationDate \in Nat
      BY <1>2, ConstantFacts
    <3> HIDE DEF tldExpiration
    <3>3. date \in Nat
      BY <2>3, <3>1, <3>2
    <3> HIDE DEF date
    <3>4. ~(date > tldExpiration)
      BY <1>5
    <3> QED
      BY <2>3, <3>1, <3>3, <3>4
  <2> DEFINE ends == Rounded(date)
  <2>6. arguments[3] = ends /\ arguments[4] = follows
    <3> HIDE DEF ends, follows
    <3>1. \A f, g, a, b : (<<f, g>> \o <<a, b>>)[3] = a /\ (<<f, g>> \o <<a, b>>)[4] = b
      OBVIOUS
    <3> QED
      BY <3>1 DEF NameArguments, ends
  <2>7. came'[1] = "register_subdomain" /\ came'[2] = arguments
    BY <1>3, <1>5 DEF Transaction
  <2>8. follows => date = contract.domain.expires * SecondMs
    BY <2>3
  <2>9. ~follows => date = asked.expirationDate
    BY <1>2 DEF HasSubdomainPolicy
  <2> DEFINE off == ends * SecondMs - asked.expirationDate
  <2>10. /\ ends <= contract.domain.expires
         /\ follows => ends = contract.domain.expires
         /\ ~follows => 2 * off <= SecondMs /\ 2 * off >= -SecondMs
    <3> HIDE DEF date, follows
    <3>1. /\ 2 * (ends * SecondMs - date) <= SecondMs
          /\ 2 * (ends * SecondMs - date) >= -SecondMs
          /\ date <= contract.domain.expires * SecondMs => ends <= contract.domain.expires
          /\ date = contract.domain.expires * SecondMs => ends = contract.domain.expires
      BY <2>4, <2>5, RoundedFacts
    <3> HIDE DEF ends
    <3> QED
      BY <2>5, <2>8, <2>9, <3>1
  <2> HIDE DEF arguments, follows, ends, date
  <2>11. SubdomainsEndWithTheirDomain'
    <3>1. came[2][3]' = ends /\ (came[2][4]' <=> follows)
      BY <2>6, <2>7
    <3>2. came'[2][3] = ends /\ (came'[2][4] <=> follows)
      BY <2>6, <2>7
    <3>3. \E c \in known' :
             LET e == came'[2][3]
                 o == e * SecondMs - asked'.expirationDate
             IN  /\ c.domain # Undefined /\ e <= c.domain.expires
                 /\ came'[2][4] => e = c.domain.expires
                 /\ ~came'[2][4] => 2 * o <= SecondMs /\ 2 * o >= -SecondMs
      BY <1>3, <2>3, <2>10, <3>2
    <3> QED
      BY <3>3 DEF SubdomainsEndWithTheirDomain
  <2>12. NamesInGraceAreListed' /\ ViewsAreTrue'
    BY <1>2, <1>3 DEF NamesInGraceAreListed, ViewsAreTrue, Lists, Views
  <2> QED
    BY <1>1, <2>11, <2>12, FinishHolds DEF NamesKeepTheirTimes
<1> QED
  BY <1>4, <1>5

\* The views that answer what they were told: came is of a view, and what the
\* property asks of it holds.
LEMMA ViewsHold ==
  AnsInv /\ (expirationViewed \/ ownerViewed \/ targetViewed \/ primaryViewed) => AnsInv'
<1> SUFFICES ASSUME AnsInv, expirationViewed \/ ownerViewed \/ targetViewed \/ primaryViewed
             PROVE  AnsInv'
  OBVIOUS
<1> DEFINE part == IF subdomainName(asked.name) = Undefined THEN "domain" ELSE "subdomain"
           Then(contract) ==
             CASE asked.kind = "getPrimaryName" ->
                    {IF contract.primary = <<>> THEN Undefined ELSE contract.primary}
               [] asked.kind = "getExpiration" ->
                    {Undefined} \cup (IF contract[part] = Undefined THEN {} ELSE {contract[part].expires * SecondMs})
               [] asked.kind = "getTargetAddress" ->
                    {IF contract[part] = Undefined THEN Undefined ELSE contract[part].target}
               [] asked.kind = "getOwnerAddress" ->
                    {IF contract[part] = Undefined THEN Undefined ELSE "owner"}
           named(contract) == IF subdomainName(asked.name) = Undefined THEN contract.domain
                              ELSE contract.subdomain
<1>1. \A contract \in Contracts : contract[part] = named(contract)
  BY DEF Contracts
<1>2. names \in known
  BY DEF AnsInv, Underway, Answered, expirationViewed, ownerViewed, targetViewed, primaryViewed
<1>3. known \subseteq Contracts /\ known' = known /\ asked' = asked /\ ansPc' = "done"
  BY DEF AnsInv, Underway, Finish, expirationViewed, ownerViewed, targetViewed, primaryViewed
\* It suffices that the result is of a state of the contract.
<1>4. ASSUME NEW result, Finish(result), asked.kind \in Viewing,
             result # Threw => \E contract \in known : result[2] \in Then(contract),
             result[1] # "register_subdomain"
      PROVE  AnsInv'
  <2>1. came' = result
    BY <1>4 DEF Finish
  <2>2. ViewsAreTrue'
    <3>1. came' # Threw => \E contract \in known' : came'[2] \in Then(contract)
      BY <1>3, <1>4, <2>1
    <3> HIDE DEF Then
    <3>2. ansPc' = "done" /\ asked'.kind \in Views \cup {"getPrimaryName"} /\ came' # Threw
          => \E contract \in known' : came'[2] \in Then(contract)
      BY <3>1
    <3> USE DEF Then
    <3> QED
      BY <1>3, <3>2 DEF ViewsAreTrue, Threw, subdomainName, HasSecond, Segments
  <2>3. SubdomainsEndWithTheirDomain' /\ NamesInGraceAreListed'
    BY <1>3, <1>4, <2>1 DEF SubdomainsEndWithTheirDomain, NamesInGraceAreListed, Viewing, Views, Lists
  <2> QED
    BY <1>4, <2>2, <2>3, FinishHolds DEF NamesKeepTheirTimes
<1>5. CASE expirationViewed
  <2> DEFINE result == Returned(getExpiration(viewed))
  <2>1. Finish(result) /\ Answered({"getExpiration"})
    BY <1>5 DEF expirationViewed
  <2>2. /\ asked.kind = "getExpiration"
        /\ viewed = <<>> \/ \E contract \in known \cap Contracts : viewed = <<ViewIn(contract, asked)>>
    BY <2>1, ViewedFacts
  <2>3. result[2] = getExpiration(viewed) /\ result[1] = "returned"
    BY DEF Returned
  <2>4. \E contract \in known : getExpiration(viewed) \in Then(contract)
    <3>1. CASE viewed = <<>>
      BY <1>2, <2>2, <3>1 DEF getExpiration
    <3>2. CASE \E contract \in known \cap Contracts : viewed = <<ViewIn(contract, asked)>>
      <4>1. PICK contract \in known \cap Contracts : viewed = <<ViewIn(contract, asked)>>
        BY <3>2
      <4>2. ViewIn(contract, asked) = contract[part]
        BY <1>1, <2>2 DEF ViewIn, Views, Lists
      <4> HIDE DEF part
      <4>3. getExpiration(viewed) \in Then(contract)
        BY <2>2, <4>1, <4>2 DEF getExpiration
      <4> QED
        BY <4>3
    <3> QED
      BY <2>2, <3>1, <3>2
  <2> HIDE DEF result, Then
  <2> QED
    BY <1>4, <2>1, <2>2, <2>3, <2>4 DEF Viewing, Views
<1>6. CASE ownerViewed
  <2> DEFINE result == IF Failed THEN Threw ELSE Returned(unwrapOption("owner"))
  <2>1. Finish(result) /\ Answered({"getOwnerAddress"})
    BY <1>6 DEF ownerViewed
  <2>2. /\ asked.kind = "getOwnerAddress"
        /\ viewed = <<>> \/ \E contract \in known \cap Contracts : viewed = <<ViewIn(contract, asked)>>
    BY <2>1, ViewedFacts
  <2>3. result[1] # "register_subdomain"
    BY DEF Returned, Threw
  <2>4. ASSUME result # Threw
        PROVE  \E contract \in known : result[2] \in Then(contract)
    <3>1. PICK contract \in known \cap Contracts : viewed = <<ViewIn(contract, asked)>>
      BY <2>2, <2>4 DEF Failed
    <3>2. ViewIn(contract, asked) = contract[part]
      BY <1>1, <2>2 DEF ViewIn, Views, Lists
    <3> HIDE DEF part
    <3>3. result[2] \in Then(contract)
      BY <2>2, <2>4, <3>1, <3>2 DEF unwrapOption, Returned, Failed
    <3> HIDE DEF Then
    <3> QED
      BY <3>3
  <2> HIDE DEF result, Then
  <2> QED
    BY <1>4, <2>1, <2>2, <2>3, <2>4 DEF Viewing, Views
<1>7. CASE targetViewed
  <2> DEFINE result == IF Failed THEN Threw ELSE Returned(unwrapOption(viewed[1].target))
  <2>1. Finish(result) /\ Answered({"getTargetAddress"})
    BY <1>7 DEF targetViewed
  <2>2. /\ asked.kind = "getTargetAddress"
        /\ viewed = <<>> \/ \E contract \in known \cap Contracts : viewed = <<ViewIn(contract, asked)>>
    BY <2>1, ViewedFacts
  <2>3. result[1] # "register_subdomain"
    BY DEF Returned, Threw
  <2>4. ASSUME result # Threw
        PROVE  \E contract \in known : result[2] \in Then(contract)
    <3>1. PICK contract \in known \cap Contracts : viewed = <<ViewIn(contract, asked)>>
      BY <2>2, <2>4 DEF Failed
    <3>2. ViewIn(contract, asked) = contract[part]
      BY <1>1, <2>2 DEF ViewIn, Views, Lists
    <3> HIDE DEF part
    <3>3. result[2] \in Then(contract)
      BY <2>2, <2>4, <3>1, <3>2 DEF unwrapOption, Returned, Failed
    <3> HIDE DEF Then
    <3> QED
      BY <3>3
  <2> HIDE DEF result, Then
  <2> QED
    BY <1>4, <2>1, <2>2, <2>3, <2>4 DEF Viewing, Views
<1>8. CASE primaryViewed
  <2> DEFINE result == IF Failed THEN Threw
                       ELSE Returned(IF viewed[1].primary = <<>> THEN Undefined ELSE viewed[1].primary)
  <2>1. Finish(result) /\ Answered({"getPrimaryName"})
    BY <1>8 DEF primaryViewed
  <2>2. /\ asked.kind = "getPrimaryName"
        /\ viewed = <<>> \/ \E contract \in known \cap Contracts : viewed = <<ViewIn(contract, asked)>>
    BY <2>1, ViewedFacts
  <2>3. result[1] # "register_subdomain"
    BY DEF Returned, Threw
  <2>4. ASSUME result # Threw
        PROVE  \E contract \in known : result[2] \in Then(contract)
    <3>1. PICK contract \in known \cap Contracts : viewed = <<ViewIn(contract, asked)>>
      BY <2>2, <2>4 DEF Failed
    <3>2. ViewIn(contract, asked) = [primary |-> contract.primary]
      BY <2>2 DEF ViewIn, Views, Lists
    <3> HIDE DEF part
    <3>3. result[2] \in Then(contract)
      BY <2>2, <2>4, <3>1, <3>2 DEF Returned, Failed
    <3> HIDE DEF Then
    <3> QED
      BY <3>3
  <2> HIDE DEF result, Then
  <2> QED
    BY <1>4, <2>1, <2>2, <2>3, <2>4 DEF Viewing, Views
<1> QED
  BY <1>5, <1>6, <1>7, <1>8

\* The threshold of a list is set, or its view failed.
LEMMA ThresholdHolds == AnsInv /\ getANSExpirationDate => AnsInv'
<1> SUFFICES ASSUME AnsInv, getANSExpirationDate PROVE AnsInv'
  OBVIOUS
<1>1. Answered(Lists) /\ viewed # <<>>
  BY DEF getANSExpirationDate, Failed
<1>2. PICK late \in {0, 1} :
        time' = time + late /\ oldest' = setDate(time, getDate(time') - viewed[1].grace)
  BY DEF getANSExpirationDate
<1>3. PICK contract \in known \cap Contracts : viewed = <<ViewIn(contract, asked)>>
  BY <1>1, ViewedFacts
<1>4. asked.kind \in Lists /\ time \in (GraceDays * DayMs) .. ((LastDay - 1) * DayMs)
  BY <1>1 DEF Answered, AnsInv, Underway
<1>5. viewed[1].grace = GraceDays
  BY <1>3, <1>4 DEF ViewIn, Views, Lists
<1>6. time \in Nat /\ time <= (LastDay - 1) * DayMs
  <2>1. LastDay \in Nat /\ (LastDay - 1) * DayMs \in Int /\ GraceDays * DayMs \in Nat
    <3>1. LastDay \in Nat
      BY MonthStarts, MonthCount DEF LastDay
    <3>2. LastDay - 1 \in Int
      BY <3>1
    <3> QED
      BY <3>1, <3>2, ConstantFacts
  <2> QED
    BY <1>4, <2>1
<1>7. oldest' = setDate(time, getDate(time + late) - GraceDays)
  BY <1>2, <1>5
<1>8. oldest' \in Int /\ oldest' + GraceDays * DayMs <= time + DayMs
  BY <1>6, <1>7, ThresholdIsLate
<1>9. time' \in Int /\ oldest' + GraceDays * DayMs <= time' + DayMs
  <2>1. GraceDays * DayMs \in Nat /\ DayMs \in Nat
    BY ConstantFacts
  <2> QED
    BY <1>2, <1>6, <1>8, <2>1
<1>10. ansPc' = "query" /\ asked' = asked /\ names' = names /\ known' = known
  BY DEF getANSExpirationDate
<1>11. names \in known /\ asked \in Asked
  BY <1>1 DEF Answered, AnsInv, Underway
<1>12. Underway'
  BY <1>4, <1>8, <1>9, <1>10, <1>11 DEF AnsInv, Underway
<1> QED
  BY <1>10, <1>12, NotDone DEF AnsInv

LEMMA listFailsHolds == AnsInv /\ listFails => AnsInv'
<1> SUFFICES ASSUME AnsInv, listFails PROVE AnsInv'
  OBVIOUS
<1>1. Finish(Threw)
  BY DEF listFails
<1>2. Plain(asked', came') /\ ansPc' = "done"
  BY <1>1 DEF Finish, Plain, Threw
<1> QED
  BY <1>1, <1>2, PlainHolds, FinishHolds

LEMMA AnswerListHolds == AnsInv /\ AnswerList => AnsInv'
<1> SUFFICES ASSUME AnsInv, AnswerList PROVE AnsInv'
  OBVIOUS
<1>1. Finish(Returned(Listed))
  BY DEF AnswerList
<1>2. /\ ansPc' = "done" /\ asked' = asked /\ known' = known /\ time' = time
      /\ came' = Returned(Listed)
  BY <1>1 DEF Finish
<1>3. /\ names \in known /\ asked.kind \in Lists
      /\ oldest \in Int /\ time \in Int /\ oldest + GraceDays * DayMs <= time + DayMs
  BY DEF AnswerList, AnsInv, Underway
<1>4. came'[1] = "returned" /\ came'[2] = Listed
  BY <1>2 DEF Returned
<1>5. ASSUME NEW part \in Parts(asked.kind),
             \A contract \in known :
                /\ contract[part] # Undefined
                /\ contract[part].expires * SecondMs + GraceDays * DayMs >= time + DayMs
      PROVE  \E contract \in known : <<part, contract[part].expires * SecondMs>> \in Listed
  <2>1. names[part] # Undefined
        /\ names[part].expires * SecondMs + GraceDays * DayMs >= time + DayMs
    BY <1>3, <1>5
  <2>2. names[part].expires \in Nat
    <3>1. part \in {"domain", "subdomain"} /\ names \in Contracts
      BY DEF Parts, AnsInv, Underway
    <3>2. names[part] \in {Undefined} \cup Registration
      BY <3>1 DEF Contracts
    <3> QED
      BY <2>1, <3>2, ConstantFacts DEF Registration
  <2>3. names[part].expires * SecondMs >= oldest
    <3>1. GraceDays * DayMs \in Nat /\ DayMs \in Nat /\ names[part].expires * SecondMs \in Nat
      BY <2>2, ConstantFacts
    <3> QED
      BY <1>3, <2>1, <3>1
  <2>4. sanitizeANSName(part, names[part]) \in Listed
    BY <2>1, <2>3 DEF Listed
  <2> QED
    BY <1>3, <2>4 DEF sanitizeANSName
<1>6. NamesInGraceAreListed'
  <2>1. \A part \in Parts(asked'.kind) :
          (\A contract \in known' :
             /\ contract[part] # Undefined
             /\ contract[part].expires * SecondMs + GraceDays * DayMs >= time' + DayMs)
          => \E contract \in known' : <<part, contract[part].expires * SecondMs>> \in came'[2]
    BY <1>2, <1>4, <1>5
  <2> QED
    BY <2>1 DEF NamesInGraceAreListed, Parts
<1>7. SubdomainsEndWithTheirDomain'
  BY <1>4 DEF SubdomainsEndWithTheirDomain
<1>8. ViewsAreTrue'
  BY <1>2, <1>3 DEF ViewsAreTrue, Lists, Views
<1> QED
  BY <1>1, <1>6, <1>7, <1>8, FinishHolds DEF NamesKeepTheirTimes

LEMMA MeanwhileHolds == AnsInv /\ Meanwhile => AnsInv'
<1> SUFFICES ASSUME AnsInv, Meanwhile PROVE AnsInv'
  OBVIOUS
<1>1. names' \in Contracts
  <2>1. PICK part \in {"domain", "subdomain"}, now \in {Undefined} \cup Registration :
          names' = [names EXCEPT ![part] = now]
    BY DEF Meanwhile
  <2>2. names \in Contracts
    BY DEF AnsInv, Underway
  <2> QED
    BY <2>1, <2>2 DEF Contracts
<1>2. known' = known \cup {names'}
  BY DEF Meanwhile
<1>3. /\ ansPc' = ansPc /\ asked' = asked /\ viewed' = viewed /\ time' = time /\ oldest' = oldest
      /\ ansPc \in {"view", "query"}
  BY DEF Meanwhile
<1>4. known' \subseteq Contracts /\ names' \in known'
  BY <1>1, <1>2 DEF AnsInv, Underway
<1>5. ansPc = "view" => viewed \in {Undefined, <<>>}
                          \/ \E contract \in known' : viewed = <<ViewIn(contract, asked)>>
  BY <1>2 DEF AnsInv, Underway
<1>6. (ansPc = "view" => viewed \in {Undefined, <<>>}
                          \/ \E contract \in known : viewed = <<ViewIn(contract, asked)>>)'
  BY <1>3, <1>5 DEF ViewIn
<1>7. HasSubdomainPolicy(asked)' <=> HasSubdomainPolicy(asked)
  BY <1>3 DEF HasSubdomainPolicy
<1>8. Underway'
  BY <1>1, <1>3, <1>4, <1>6, <1>7 DEF AnsInv, Underway
<1> QED
  BY <1>3, <1>8, NotDone DEF AnsInv

LEMMA OverHolds == AnsInv /\ Over => AnsInv'
  BY NotDone DEF AnsInv, Underway, Over

LEMMA AnsStep == AnsInv /\ [AnsNext]_ansVars => AnsInv'
<1> SUFFICES ASSUME AnsInv, [AnsNext]_ansVars PROVE AnsInv'
  OBVIOUS
<1>1. CASE UNCHANGED ansVars
  BY <1>1 DEF ansVars, AnsInv, Underway, NamesKeepTheirTimes, SubdomainsEndWithTheirDomain,
              NamesInGraceAreListed, ViewsAreTrue, ViewIn, HasSubdomainPolicy, Parts
<1>2. CASE AnsNext
  BY <1>2, StartsHold, AnswerViewHolds, registerSubdomainHolds, ViewsHold, ThresholdHolds,
     listFailsHolds, AnswerListHolds, MeanwhileHolds, OverHolds DEF AnsNext
<1> QED
  BY <1>1, <1>2

\* Whatever names, calls, segments, expiry dates and calendar there are, and
\* whatever happens to the names during a call (internal/ans.ts): a subdomain that
\* is registered ends no later than its domain did, a list misses no name of the
\* grace period but for its last day, and a view was true at some time of its call.
THEOREM NamesKeepTheirTimesHolds == AnsSpec => []NamesKeepTheirTimes
<1>1. AnsInv => NamesKeepTheirTimes
  BY DEF AnsInv
<1> QED
  BY <1>1, AnsInitially, AnsStep, PTL DEF AnsSpec

-----------------------------------------------------------------------------
(* Base 58.                                                                *)

LEMMA Bases ==
  /\ HexBase \in Nat \ {0, 1} /\ Letters \in Nat \ {0, 1} /\ ByteSize \in Nat \ {0, 1}
  /\ LENGTH \in Nat \ {0, 1} /\ MaxTyped \in Nat
  /\ HexBase <= Letters /\ Letters < ByteSize /\ ByteSize = HexBase * HexBase
  /\ Power(HexBase, 2 * LENGTH) <= Power(Letters, 2 * LENGTH - 1)
<1>1. /\ HexBase \in Nat \ {0, 1} /\ LENGTH \in Nat \ {0} /\ MaxTyped \in Nat
      /\ Letters \in HexBase .. (HexBase * HexBase - 1)
      /\ Power(Letters, 2 * LENGTH - 1) >= Power(HexBase, 2 * LENGTH)
  BY AddressAssumption DEF AddressAssumption
<1> DEFINE h == HexBase * HexBase
<1>2. h \in Nat /\ h > HexBase
  BY <1>1
<1>3. Letters \in Nat \ {0, 1} /\ HexBase <= Letters /\ Letters < h /\ ByteSize = h
  <2>1. Letters \in HexBase .. (h - 1)
    BY <1>1
  <2> HIDE DEF h
  <2>2. Letters \in Nat \ {0, 1} /\ HexBase <= Letters /\ Letters < h
    BY <1>1, <1>2, <2>1
  <2> QED
    BY <2>2 DEF h, ByteSize
<1>4. \A b \in Nat \ {0} : Power(b, 1) = b /\ Power(b, 2) = b * b
  <2> TAKE b \in Nat \ {0}
  <2>1. Power(b, 0) = 1 /\ Power(b, 0 + 1) = Power(b, 0) * b /\ Power(b, 1 + 1) = Power(b, 1) * b
    BY PowerFacts
  <2>2. 0 + 1 = 1 /\ 1 + 1 = 2 /\ 1 * b = b
    OBVIOUS
  <2> QED
    BY <2>1, <2>2
<1>5. LENGTH # 1
  <2> SUFFICES ASSUME LENGTH = 1 PROVE FALSE
    OBVIOUS
  <2>1. Power(Letters, 1) >= Power(HexBase, 2)
    BY <1>1
  <2>2. Letters >= h
    BY <1>1, <1>3, <1>4, <2>1
  <2> HIDE DEF h
  <2> QED
    BY <1>2, <1>3, <2>2
<1>6. Power(HexBase, 2 * LENGTH) <= Power(Letters, 2 * LENGTH - 1)
  <2>1. Power(HexBase, 2 * LENGTH) \in Nat /\ Power(Letters, 2 * LENGTH - 1) \in Nat
    BY <1>1, <1>3, PowerFacts
  <2> QED
    BY <1>1, <2>1
<1> HIDE DEF h
<1>7. h \in Nat \ {0, 1}
  BY <1>1, <1>2
<1> QED
  BY <1>1, <1>2, <1>3, <1>5, <1>6, <1>7 DEF h

\* Bytes are a number that fits into as many letters as its digits in base HexBase.
LEMMA BytesInLetters ==
  ASSUME NEW n \in Nat
  PROVE  Power(ByteSize, n) <= Power(Letters, 2 * n) /\ Power(Letters, n) <= Power(ByteSize, n)
<1>1. Power(ByteSize, n) = Power(HexBase, 2 * n)
  BY Bases, PowerSquare
<1>2. Power(HexBase, 2 * n) <= Power(Letters, 2 * n)
  <2>1. 2 * n \in Nat
    OBVIOUS
  <2> QED
    BY Bases, <2>1, PowerBases
<1>3. Power(Letters, n) <= Power(ByteSize, n)
  BY Bases, PowerBases
<1> QED
  BY <1>1, <1>2, <1>3

Lettered(n) == [1 .. n -> 1 .. Letters]

\* What bs58decode makes of n letters.
LEMMA bs58decodeFacts ==
  ASSUME NEW n \in Nat, NEW chars \in Lettered(n)
  PROVE  \E z \in 0 .. n, k \in 0 .. n :
         \E t \in Digits(Letters, n - z), s \in Digits(ByteSize, k) :
            /\ z = Leading(chars, 1)
            /\ bs58decode(chars) = Behind(0, z, s)
            /\ Short(t) /\ s = ShortestDigits(ValueOf(t, Letters), ByteSize, n)
            /\ \A i \in 1 .. (n - z) : chars[z + i] = t[i] + 1
            /\ ValueOf(t, Letters) < Power(ByteSize, k)
            /\ k > 0 => Power(ByteSize, k - 1) <= ValueOf(t, Letters)
<1> DEFINE d == [i \in DOMAIN chars |-> chars[i] - 1]
<1>0. Letters \in Nat \ {0} /\ ByteSize \in Nat \ {0} /\ Letters + 1 \in Nat
  BY Bases
<1>1. /\ d \in Digits(Letters, n) /\ \A i \in 1 .. n : d[i] = chars[i] - 1 /\ chars[i] = d[i] + 1
      /\ Len(chars) = n
  BY Bases DEF Lettered, Digits
<1>2. bs58decode(chars) = Behind(0, Leading(chars, 1), ShortestDigits(ValueOf(d, Letters), ByteSize, n))
  BY <1>1 DEF bs58decode, Behind
<1> HIDE DEF d
<1>3. PICK z \in 0 .. n : \E t \in Digits(Letters, n - z) :
            /\ z = Leading(d, 0) /\ Short(t)
            /\ Behind(0, z, t) = d
            /\ ValueOf(d, Letters) = ValueOf(t, Letters)
            /\ \A i \in 1 .. z : d[i] = 0
            /\ \A i \in 1 .. (n - z) : d[z + i] = t[i]
  BY <1>0, <1>1, Split
<1>4. PICK t \in Digits(Letters, n - z) :
            /\ z = Leading(d, 0) /\ Short(t)
            /\ ValueOf(d, Letters) = ValueOf(t, Letters)
            /\ \A i \in 1 .. z : d[i] = 0
            /\ \A i \in 1 .. (n - z) : d[z + i] = t[i]
  BY <1>3
<1>5. \A i \in 1 .. (n - z) : z + i \in 1 .. n
  OBVIOUS
<1>6. \A i \in 1 .. (n - z) : chars[z + i] = t[i] + 1
  BY <1>1, <1>4, <1>5
<1>7. z = Leading(chars, 1)
  <2>1. chars \in Digits(Letters + 1, n) /\ Letters + 1 \in Nat
    BY <1>0 DEF Lettered, Digits
  <2>2. \A i \in 1 .. z : chars[i] = 1
    BY <1>1, <1>4
  <2>3. z < n => chars[z + 1] # 1
    <3> SUFFICES ASSUME z < n PROVE chars[z + 1] # 1
      OBVIOUS
    <3>1. z + 1 \in 1 .. n
      OBVIOUS
    <3>2. Begins(d, n, 0, Leading(d, 0))
      BY <1>0, <1>1, LeadingFacts
    <3>3. d[z + 1] \in 0 .. (Letters - 1)
      BY <1>1, <3>1 DEF Digits
    <3> QED
      BY <1>1, <1>4, <3>1, <3>2, <3>3 DEF Begins
  <2>4. Begins(chars, n, 1, z)
    BY <2>2, <2>3 DEF Begins
  <2> QED
    BY <2>1, <2>4, LeadingFacts
<1> DEFINE v == ValueOf(t, Letters)
           s == ShortestDigits(v, ByteSize, n)
<1>8. v \in Nat /\ v < Power(ByteSize, n)
  <2>1. ValueOf(d, Letters) \in Nat /\ ValueOf(d, Letters) < Power(Letters, n)
    BY <1>0, <1>1, ValueBounds
  <2>2. Power(Letters, n) <= Power(ByteSize, n) /\ Power(Letters, n) \in Nat /\ Power(ByteSize, n) \in Nat
    BY <1>0, BytesInLetters, PowerFacts
  <2> QED
    BY <1>4, <2>1, <2>2
<1> HIDE DEF v
<1>9. PICK k \in 0 .. n : /\ s \in Digits(ByteSize, k) /\ v < Power(ByteSize, k)
                          /\ k > 0 => Power(ByteSize, k - 1) <= v
  BY <1>0, <1>8, ShortestFacts
<1>10. bs58decode(chars) = Behind(0, z, s)
  BY <1>2, <1>4, <1>7 DEF v
<1>11. s = ShortestDigits(v, ByteSize, n)
  OBVIOUS
<1> HIDE DEF s
<1>12. /\ z = Leading(chars, 1)
       /\ bs58decode(chars) = Behind(0, z, s)
       /\ Short(t) /\ s = ShortestDigits(ValueOf(t, Letters), ByteSize, n)
       /\ \A i \in 1 .. (n - z) : chars[z + i] = t[i] + 1
       /\ ValueOf(t, Letters) < Power(ByteSize, k)
       /\ k > 0 => Power(ByteSize, k - 1) <= ValueOf(t, Letters)
  <2>1. Short(t)
    BY <1>4
  <2>2. /\ s = ShortestDigits(ValueOf(t, Letters), ByteSize, n)
        /\ ValueOf(t, Letters) < Power(ByteSize, k)
        /\ k > 0 => Power(ByteSize, k - 1) <= ValueOf(t, Letters)
    BY <1>9, <1>11 DEF v
  <2> QED
    BY <1>6, <1>7, <1>10, <2>1, <2>2
<1> QED
  BY <1>9, <1>12

\* bs58decode takes bs58encode back.
LEMMA bs58encodeFacts ==
  ASSUME NEW n \in Nat, NEW bytes \in Digits(ByteSize, n)
  PROVE  \E l \in Nat : /\ bs58encode(bytes) \in Lettered(l)
                        /\ bs58decode(bs58encode(bytes)) = bytes
<1>0. /\ Letters \in Nat \ {0} /\ ByteSize \in Nat \ {0} /\ Letters + 1 \in Nat
      /\ 1 \in 0 .. ((Letters + 1) - 1)
  BY Bases
<1>1. PICK z \in 0 .. n : \E t \in Digits(ByteSize, n - z) :
            /\ z = Leading(bytes, 0) /\ Short(t)
            /\ Behind(0, z, t) = bytes
            /\ ValueOf(bytes, ByteSize) = ValueOf(t, ByteSize)
  BY <1>0, Split
<1>2. PICK t \in Digits(ByteSize, n - z) :
            /\ z = Leading(bytes, 0) /\ Short(t)
            /\ Behind(0, z, t) = bytes
            /\ ValueOf(bytes, ByteSize) = ValueOf(t, ByteSize)
  BY <1>1
<1> DEFINE m == n - z
           v == ValueOf(bytes, ByteSize)
           ds == ShortestDigits(v, Letters, 2 * n)
           up == [i \in DOMAIN ds |-> ds[i] + 1]
           e == bs58encode(bytes)
<1>3. m \in Nat /\ z \in Nat /\ 2 * n \in Nat /\ t \in Digits(ByteSize, m)
  OBVIOUS
<1>4. v \in Nat /\ v < Power(Letters, 2 * n) /\ v = ValueOf(t, ByteSize)
  <2>1. ValueOf(bytes, ByteSize) \in Nat /\ ValueOf(bytes, ByteSize) < Power(ByteSize, n)
    BY <1>0, ValueBounds
  <2>2. Power(ByteSize, n) <= Power(Letters, 2 * n) /\ Power(ByteSize, n) \in Nat /\ Power(Letters, 2 * n) \in Nat
    BY <1>0, <1>3, BytesInLetters, PowerFacts
  <2> QED
    BY <1>2, <2>1, <2>2
<1>5. e = Behind(1, z, up)
  <2>1. Len(bytes) = n
    BY DEF Digits
  <2> QED
    BY <1>2, <2>1 DEF bs58encode, Behind
<1> HIDE DEF v, e, m
<1>6. PICK k \in 0 .. (2 * n) :
            /\ ds \in Digits(Letters, k) /\ ValueOf(ds, Letters) = v /\ Short(ds)
            /\ v < Power(Letters, k) /\ (k > 0 => Power(Letters, k - 1) <= v)
  BY <1>0, <1>3, <1>4, ShortestFacts
<1> HIDE DEF ds
<1>7. /\ up \in Digits(Letters + 1, k) /\ \A i \in 1 .. k : up[i] = ds[i] + 1 /\ up[i] \in 1 .. Letters
      /\ k > 0 => up[1] # 1
  <2>1. /\ DOMAIN ds = 1 .. k /\ \A i \in 1 .. k : ds[i] \in 0 .. (Letters - 1)
        /\ k > 0 => ds[1] # 0
    BY <1>6 DEF Digits, Short
  <2>2. \A i \in 1 .. k : up[i] = ds[i] + 1 /\ up[i] \in 1 .. Letters /\ up[i] \in 0 .. ((Letters + 1) - 1)
    BY <1>0, <2>1
  <2>3. k > 0 => 1 \in 1 .. k
    OBVIOUS
  <2>4. k > 0 => up[1] # 1
    BY <2>1, <2>3
  <2>5. up \in [1 .. k -> 0 .. ((Letters + 1) - 1)]
    BY <2>1, <2>2
  <2> QED
    BY <2>2, <2>4, <2>5 DEF Digits
<1> HIDE DEF up
<1> DEFINE l == z + k
<1>8. l \in Nat /\ k \in Nat /\ l - z = k
  BY <1>3
<1>9. /\ e \in Digits(Letters + 1, l)
      /\ \A i \in 1 .. z : e[i] = 1
      /\ \A i \in 1 .. k : e[z + i] = up[i]
  <2>1. /\ Behind(1, z, up) \in Digits(Letters + 1, z + k)
        /\ \A i \in 1 .. z : Behind(1, z, up)[i] = 1
        /\ \A i \in 1 .. k : Behind(1, z, up)[z + i] = up[i]
    <3>1. k \in Nat
      BY <1>8
    <3>2. up \in Digits(Letters + 1, k)
      BY <1>7
    <3> QED
      BY <1>0, <1>3, <3>1, <3>2, RepeatedFacts
  <2> QED
    BY <1>5, <2>1
<1>10. e \in Lettered(l)
  <2>1. \A i \in 1 .. l : i \in 1 .. z \/ (i - z \in 1 .. k /\ z + (i - z) = i)
    OBVIOUS
  <2>2. \A i \in 1 .. l : e[i] \in 1 .. Letters
    BY <1>0, <1>7, <1>9, <2>1
  <2> QED
    BY <1>9, <2>2 DEF Digits, Lettered
<1>11. Leading(e, 1) = z
  <2>1. z < l => k > 0 /\ 1 \in 1 .. k
    BY <1>8
  <2>2. Begins(e, l, 1, z)
    BY <1>3, <1>7, <1>8, <1>9, <2>1 DEF Begins
  <2> QED
    BY <1>0, <1>8, <1>9, <2>2, LeadingFacts
<1> HIDE DEF l
<1>12. \E zz \in 0 .. l, kk \in 0 .. l :
       \E tt \in Digits(Letters, l - zz), s \in Digits(ByteSize, kk) :
            /\ zz = Leading(e, 1)
            /\ bs58decode(e) = Behind(0, zz, s)
            /\ s = ShortestDigits(ValueOf(tt, Letters), ByteSize, l)
            /\ \A i \in 1 .. (l - zz) : e[zz + i] = tt[i] + 1
  BY <1>8, <1>10, bs58decodeFacts
<1>13. PICK tt \in Digits(Letters, k) :
            /\ bs58decode(e) = Behind(0, z, ShortestDigits(ValueOf(tt, Letters), ByteSize, l))
            /\ \A i \in 1 .. k : e[z + i] = tt[i] + 1
  BY <1>8, <1>11, <1>12
<1>14. tt = ds
  <2>1. \A i \in 1 .. k : tt[i] \in Nat /\ ds[i] \in Nat
    BY <1>0, <1>6 DEF Digits
  <2>2. \A i \in 1 .. k : tt[i] + 1 = ds[i] + 1
    BY <1>7, <1>9, <1>13
  <2>3. \A i \in 1 .. k : tt[i] = ds[i]
    BY <2>1, <2>2
  <2> QED
    BY <1>6, <2>3 DEF Digits
<1>15. m <= k
  <2>1. CASE m = 0
    BY <1>8, <2>1
  <2>2. CASE m # 0
    <3>1. m > 0 /\ m - 1 \in Nat /\ t[1] # 0
      BY <1>2, <1>3, <2>2 DEF Short, Digits
    <3>2. Power(ByteSize, m - 1) <= v
      BY <1>0, <1>3, <1>4, <3>1, ValueBounds
    <3>3. v < Power(Letters, k) /\ Power(Letters, k) <= Power(ByteSize, k)
      BY <1>6, <1>8, BytesInLetters
    <3>4. /\ Power(ByteSize, m - 1) \in Nat /\ Power(ByteSize, k) \in Nat /\ Power(Letters, k) \in Nat
      BY <1>0, <1>8, <3>1, PowerFacts
    <3>5. Power(ByteSize, m - 1) < Power(ByteSize, k)
      BY <1>4, <3>2, <3>3, <3>4
    <3>6. m - 1 < k
      BY <1>0, <1>8, <3>1, <3>5, Exponents
    <3> QED
      BY <1>3, <1>8, <3>6
  <2> QED
    BY <2>1, <2>2
<1>16. ShortestDigits(v, ByteSize, l) = t
  <2>1. m \in 0 .. l
    BY <1>3, <1>8, <1>15 DEF l
  <2> QED
    BY <1>0, <1>2, <1>3, <1>4, <1>8, <2>1, ShortestIsUnique
<1>17. bs58decode(e) = bytes
  BY <1>2, <1>6, <1>13, <1>14, <1>16
<1> QED
  BY <1>8, <1>10, <1>17 DEF e

\* LONG_STRING_LENGTH letters, and one letter, are never LENGTH bytes.
LEMMA LongIsNotBs58 ==
  ASSUME NEW n \in {1, LONG_STRING_LENGTH}, NEW chars \in Lettered(n)
  PROVE  Len(bs58decode(chars)) # LENGTH
<1>0. /\ Letters \in Nat \ {0} /\ ByteSize \in Nat \ {0} /\ HexBase \in Nat \ {0}
      /\ LENGTH \in Nat \ {0, 1} /\ HexBase <= Letters
      /\ Power(HexBase, 2 * LENGTH) <= Power(Letters, 2 * LENGTH - 1)
  BY Bases
<1>1. n \in Nat /\ (n = 1 \/ n = 2 * LENGTH)
  BY <1>0 DEF LONG_STRING_LENGTH
<1>2. PICK z \in 0 .. n, k \in 0 .. n :
       \E t \in Digits(Letters, n - z), s \in Digits(ByteSize, k) :
            /\ bs58decode(chars) = Behind(0, z, s)
            /\ Short(t) /\ ValueOf(t, Letters) < Power(ByteSize, k)
            /\ k > 0 => Power(ByteSize, k - 1) <= ValueOf(t, Letters)
  BY <1>1, bs58decodeFacts
<1>3. PICK t \in Digits(Letters, n - z), s \in Digits(ByteSize, k) :
            /\ bs58decode(chars) = Behind(0, z, s)
            /\ Short(t) /\ ValueOf(t, Letters) < Power(ByteSize, k)
            /\ k > 0 => Power(ByteSize, k - 1) <= ValueOf(t, Letters)
  BY <1>2
<1> DEFINE v == ValueOf(t, Letters)
<1>4. z \in Nat /\ k \in Nat /\ n - z \in Nat
  BY <1>1
<1>5. Len(bs58decode(chars)) = z + k
  <2>1. 0 \in 0 .. (ByteSize - 1)
    BY <1>0
  <2>2. Behind(0, z, s) \in Digits(ByteSize, z + k)
    BY <1>0, <1>4, <2>1, RepeatedFacts
  <2>3. z + k \in Nat
    BY <1>4
  <2> QED
    BY <1>3, <2>2, <2>3 DEF Digits
<1>6. /\ v \in Nat /\ v < Power(Letters, n - z)
      /\ n - z > 0 => Power(Letters, (n - z) - 1) <= v
  <2>1. n - z > 0 => t[1] # 0
    <3>1. n - z > 0 => t # <<>>
      BY <1>4 DEF Digits
    <3> QED
      BY <1>3, <3>1 DEF Short
  <2> QED
    BY <1>0, <1>4, <2>1, ValueBounds
<1>7. v < Power(ByteSize, k) /\ (k > 0 => Power(ByteSize, k - 1) <= v)
  BY <1>3
<1> HIDE DEF v
<1>8. z + k # LENGTH
  <2>1. CASE n = 1
    <3> SUFFICES ASSUME k > n - z PROVE FALSE
      BY <1>0, <1>4, <2>1
    <3>1. k - 1 \in Nat /\ ~(k - 1 < n - z)
      BY <1>4
    <3>2. Power(ByteSize, k - 1) <= v /\ Power(Letters, n - z) <= Power(ByteSize, n - z)
      BY <1>4, <1>7, BytesInLetters
    <3>3. /\ Power(ByteSize, k - 1) \in Nat /\ Power(Letters, n - z) \in Nat
          /\ Power(ByteSize, n - z) \in Nat
      BY <1>0, <1>4, <3>1, PowerFacts
    <3>4. Power(ByteSize, k - 1) < Power(ByteSize, n - z)
      BY <1>6, <3>2, <3>3
    <3> QED
      BY <1>0, <1>4, <3>1, <3>4, Exponents
  <2>2. CASE n = 2 * LENGTH
    <3> SUFFICES ASSUME z + k = LENGTH PROVE FALSE
      OBVIOUS
    <3> DEFINE r == 2 * LENGTH - z - 1
    <3>1. r \in Nat /\ n - z > 0 /\ (n - z) - 1 = r /\ 2 * k \in Nat /\ 2 * LENGTH \in Nat
      BY <1>0, <1>4, <2>2
    <3> HIDE DEF r
    <3>2. Power(Letters, r) <= v /\ v < Power(ByteSize, k)
      BY <1>6, <1>7, <3>1
    <3>3. Power(ByteSize, k) = Power(HexBase, 2 * k)
      BY <1>0, <1>4, PowerSquare DEF ByteSize
    <3>4. /\ Power(Letters, r) \in Nat /\ Power(HexBase, 2 * k) \in Nat
          /\ Power(Letters, 2 * k) \in Nat
      BY <1>0, <3>1, PowerFacts
    <3>5. Power(HexBase, 2 * k) <= Power(Letters, r)
      <4>1. CASE z = 0
        <5>1. k = LENGTH /\ r = 2 * LENGTH - 1
          BY <1>0, <1>4, <4>1 DEF r
        <5> QED
          BY <1>0, <5>1
      <4>2. CASE z # 0
        <5>1. 2 * k <= r
          BY <1>0, <1>4, <4>2 DEF r
        <5>2. Power(Letters, 2 * k) <= Power(Letters, r)
          BY <1>0, <3>1, <5>1, PowerOrder
        <5>3. Power(HexBase, 2 * k) <= Power(Letters, 2 * k)
          BY <1>0, <3>1, PowerBases
        <5> QED
          BY <3>4, <5>2, <5>3
      <4> QED
        BY <4>1, <4>2
    <3> QED
      BY <1>6, <3>2, <3>3, <3>4, <3>5
  <2> QED
    BY <1>1, <2>1, <2>2
<1> QED
  BY <1>5, <1>8

-----------------------------------------------------------------------------
(* Hexadecimal.                                                            *)

\* Every two digits are the byte in their place.
Pairs(bytes, chars, n) == \A j \in 1 .. n : bytes[j] = chars[2 * j - 1] * HexBase + chars[2 * j]

LEMMA Places ==
  ASSUME NEW n \in Nat
  PROVE  /\ 2 * n \in Nat
         /\ \A j \in 1 .. n : 2 * j - 1 \in 1 .. (2 * n) /\ 2 * j \in 1 .. (2 * n)
         /\ \A i \in 1 .. (2 * n) : \E j \in 1 .. n : i = 2 * j - 1 \/ i = 2 * j
<1>1. 2 * n \in Nat /\ \A j \in 1 .. n : 2 * j - 1 \in 1 .. (2 * n) /\ 2 * j \in 1 .. (2 * n)
  OBVIOUS
<1>2. ASSUME NEW i \in 1 .. (2 * n)
      PROVE  \E j \in 1 .. n : i = 2 * j - 1 \/ i = 2 * j
  <2>1. (i + 1) \div 2 \in 1 .. n
    OBVIOUS
  <2>2. i = 2 * ((i + 1) \div 2) - 1 \/ i = 2 * ((i + 1) \div 2)
    OBVIOUS
  <2> QED
    BY <2>1, <2>2
<1> QED
  BY <1>1, <1>2

LEMMA TwoDigits ==
  ASSUME NEW d \in Digits(HexBase, 2)
  PROVE  /\ d[1] \in 0 .. (HexBase - 1) /\ d[2] \in 0 .. (HexBase - 1)
         /\ ValueOf(d, HexBase) = d[1] * HexBase + d[2]
         /\ d[1] * HexBase + d[2] \in 0 .. (ByteSize - 1)
<1>0. HexBase \in Nat \ {0} /\ ByteSize = HexBase * HexBase
  BY Bases
<1>1. 0 + 1 = 1 /\ 1 + 1 = 2 /\ 0 \in Nat /\ 1 \in Nat /\ 1 \in 1 .. 1
  OBVIOUS
<1>2. d[1] \in 0 .. (HexBase - 1) /\ d[2] \in 0 .. (HexBase - 1)
  BY DEF Digits
<1>3. Firsts(d, 1) \in Digits(HexBase, 1) /\ ValueOf(d, HexBase) = ValueOf(Firsts(d, 1), HexBase) * HexBase + d[2]
  BY <1>0, <1>1, OneDigit
<1>4. /\ ValueOf(Firsts(d, 1), HexBase) = ValueOf(Firsts(Firsts(d, 1), 0), HexBase) * HexBase + Firsts(d, 1)[1]
      /\ Firsts(Firsts(d, 1), 0) \in Digits(HexBase, 0)
  BY <1>0, <1>1, <1>3, OneDigit
<1>5. ValueOf(Firsts(Firsts(d, 1), 0), HexBase) = 0
  <2>1. Firsts(Firsts(d, 1), 0) \in [1 .. 0 -> Nat]
    BY <1>4 DEF Digits
  <2> QED
    BY <1>0, <1>1, <2>1, ValueFacts
<1>6. Firsts(d, 1)[1] = d[1]
  BY <1>1 DEF Firsts
<1>7. ValueOf(d, HexBase) = d[1] * HexBase + d[2]
  BY <1>0, <1>2, <1>3, <1>4, <1>5, <1>6
<1>8. d[1] * HexBase + d[2] < HexBase * HexBase
  <2>1. d[1] \in Nat /\ HexBase \in Nat /\ d[1] < HexBase
    BY <1>0, <1>2
  <2>2. \A x \in 0 .. (HexBase - 1) : d[1] * HexBase + x < HexBase * HexBase
    BY <1>0, <2>1, ProductFacts
  <2> QED
    BY <1>2, <2>2
<1>9. d[1] * HexBase + d[2] \in Nat /\ HexBase * HexBase \in Nat
  BY <1>0, <1>2
<1> QED
  BY <1>0, <1>2, <1>7, <1>8, <1>9

LEMMA digitsOfBytesFacts ==
  ASSUME NEW n \in Nat, NEW bytes \in Digits(ByteSize, n)
  PROVE  digitsOfBytes(bytes) \in Digits(HexBase, 2 * n) /\ Pairs(bytes, digitsOfBytes(bytes), n)
<1> DEFINE digits(v) == DigitsOf(v, HexBase, 2)
           hex == [i \in 1 .. (2 * n) |-> digits(bytes[(i + 1) \div 2])[2 - (i % 2)]]
<1>1. digitsOfBytes(bytes) = hex
  BY DEF Digits, digitsOfBytes
<1>2. ASSUME NEW v \in 0 .. (ByteSize - 1)
      PROVE  digits(v) \in Digits(HexBase, 2) /\ digits(v)[1] * HexBase + digits(v)[2] = v
  <2>0. HexBase \in Nat \ {0} /\ ByteSize \in Nat /\ ByteSize = HexBase * HexBase
    BY Bases
  <2>1. Power(HexBase, 2) = ByteSize
    <3>1. /\ Power(HexBase, 0) = 1 /\ Power(HexBase, 0 + 1) = Power(HexBase, 0) * HexBase
          /\ Power(HexBase, 1 + 1) = Power(HexBase, 1) * HexBase
      BY <2>0, PowerFacts
    <3>2. 0 + 1 = 1 /\ 1 + 1 = 2 /\ 1 * HexBase = HexBase
      BY <2>0
    <3> QED
      BY <2>0, <3>1, <3>2
  <2>2. v \in Nat /\ v < Power(HexBase, 2)
    BY <2>0, <2>1
  <2>3. digits(v) \in Digits(HexBase, 2) /\ ValueOf(digits(v), HexBase) = v
    BY <2>0, <2>2, DigitsOfFacts
  <2> HIDE DEF digits
  <2> QED
    BY <2>3, TwoDigits
<1> HIDE DEF digits
<1>3. \A j \in 1 .. n : bytes[j] \in 0 .. (ByteSize - 1)
  BY DEF Digits
<1>4. \A j \in 1 .. n : /\ hex[2 * j - 1] = digits(bytes[j])[1]
                        /\ hex[2 * j] = digits(bytes[j])[2]
  <2> TAKE j \in 1 .. n
  <2>1. 2 * j - 1 \in 1 .. (2 * n) /\ 2 * j \in 1 .. (2 * n)
    BY Places
  <2>2. ((2 * j - 1) + 1) \div 2 = j /\ (2 * j + 1) \div 2 = j
    OBVIOUS
  <2>3. 2 - ((2 * j - 1) % 2) = 1 /\ 2 - ((2 * j) % 2) = 2
    OBVIOUS
  <2> QED
    BY <2>1, <2>2, <2>3
<1>5. \A j \in 1 .. n : hex[2 * j - 1] \in 0 .. (HexBase - 1) /\ hex[2 * j] \in 0 .. (HexBase - 1)
  <2> HIDE DEF hex
  <2>1. \A j \in 1 .. n : digits(bytes[j]) \in Digits(HexBase, 2)
    BY <1>2, <1>3
  <2>2. \A j \in 1 .. n : digits(bytes[j])[1] \in 0 .. (HexBase - 1) /\ digits(bytes[j])[2] \in 0 .. (HexBase - 1)
    BY <2>1, TwoDigits
  <2> QED
    BY <1>4, <2>2
<1>6. \A i \in 1 .. (2 * n) : hex[i] \in 0 .. (HexBase - 1)
  <2> HIDE DEF hex
  <2> QED BY <1>5, Places
<1>7. hex \in Digits(HexBase, 2 * n)
  <2>1. hex = [i \in 1 .. (2 * n) |-> hex[i]]
    OBVIOUS
  <2> HIDE DEF hex
  <2> QED
    BY <1>6, <2>1 DEF Digits
<1> HIDE DEF hex
<1>8. Pairs(bytes, hex, n)
  BY <1>2, <1>3, <1>4 DEF Pairs
<1> QED
  BY <1>1, <1>7, <1>8

LEMMA bytesOfDigitsFacts ==
  ASSUME NEW n \in Nat, NEW chars \in Digits(HexBase, 2 * n)
  PROVE  bytesOfDigits(chars) \in Digits(ByteSize, n) /\ Pairs(bytesOfDigits(chars), chars, n)
<1> DEFINE two(j) == SubSeq(chars, 2 * j - 1, 2 * j)
<1>1. Len(chars) = 2 * n /\ (2 * n) \div 2 = n
  BY DEF Digits
<1>2. bytesOfDigits(chars) = [j \in 1 .. n |-> ValueOf(two(j), HexBase)]
  BY <1>1 DEF bytesOfDigits
<1>3. ASSUME NEW j \in 1 .. n
      PROVE  two(j) \in Digits(HexBase, 2) /\ two(j)[1] = chars[2 * j - 1] /\ two(j)[2] = chars[2 * j]
  <2>1. 2 * j - 1 \in 1 .. (2 * n) /\ 2 * j \in 1 .. (2 * n)
    BY Places
  <2>2. chars[2 * j - 1] \in 0 .. (HexBase - 1) /\ chars[2 * j] \in 0 .. (HexBase - 1)
    BY <2>1 DEF Digits
  <2>3. two(j) = [i \in 1 .. ((2 * j) - (2 * j - 1) + 1) |-> chars[i + (2 * j - 1) - 1]]
    OBVIOUS
  <2>4. (2 * j) - (2 * j - 1) + 1 = 2 /\ 1 + (2 * j - 1) - 1 = 2 * j - 1 /\ 2 + (2 * j - 1) - 1 = 2 * j
    OBVIOUS
  <2>5. two(j) = [i \in 1 .. 2 |-> chars[i + (2 * j - 1) - 1]]
    BY <2>3, <2>4
  <2> HIDE DEF two
  <2>6. two(j)[1] = chars[2 * j - 1] /\ two(j)[2] = chars[2 * j]
    BY <2>4, <2>5
  <2>7. two(j) \in [1 .. 2 -> 0 .. (HexBase - 1)]
    <3>1. \A i \in 1 .. 2 : i = 1 \/ i = 2
      OBVIOUS
    <3>2. \A i \in 1 .. 2 : two(j)[i] \in 0 .. (HexBase - 1)
      BY <2>2, <2>6, <3>1
    <3> QED
      BY <2>5, <3>2
  <2> QED
    BY <2>6, <2>7 DEF Digits
<1> HIDE DEF two
<1>4. \A j \in 1 .. n : /\ ValueOf(two(j), HexBase) = chars[2 * j - 1] * HexBase + chars[2 * j]
                        /\ ValueOf(two(j), HexBase) \in 0 .. (ByteSize - 1)
  <2> TAKE j \in 1 .. n
  <2> QED
    BY <1>3, TwoDigits
<1> DEFINE bytes == [j \in 1 .. n |-> ValueOf(two(j), HexBase)]
<1>5. bytes \in Digits(ByteSize, n) /\ Pairs(bytes, chars, n)
  BY <1>4 DEF Digits, Pairs
<1> QED
  BY <1>2, <1>5

LEMMA PairsAreUnique ==
  ASSUME NEW n \in Nat, NEW b \in Digits(ByteSize, n), NEW c \in Digits(HexBase, 2 * n), Pairs(b, c, n)
  PROVE  /\ \A bb \in Digits(ByteSize, n) : Pairs(bb, c, n) => bb = b
         /\ \A cc \in Digits(HexBase, 2 * n) : Pairs(b, cc, n) => cc = c
<1>1. \A bb \in Digits(ByteSize, n) : Pairs(bb, c, n) => bb = b
  BY DEF Pairs, Digits
<1>2. ASSUME NEW cc \in Digits(HexBase, 2 * n), Pairs(b, cc, n)
      PROVE  cc = c
  <2>1. ASSUME NEW j \in 1 .. n
        PROVE  cc[2 * j - 1] = c[2 * j - 1] /\ cc[2 * j] = c[2 * j]
    <3>0. HexBase \in Nat \ {0}
      BY Bases
    <3>1. 2 * j - 1 \in 1 .. (2 * n) /\ 2 * j \in 1 .. (2 * n)
      BY Places
    <3>2. /\ c[2 * j - 1] \in 0 .. (HexBase - 1) /\ c[2 * j] \in 0 .. (HexBase - 1)
          /\ cc[2 * j - 1] \in 0 .. (HexBase - 1) /\ cc[2 * j] \in 0 .. (HexBase - 1)
      BY <3>1 DEF Digits
    <3>3. c[2 * j - 1] \in Nat /\ cc[2 * j - 1] \in Nat
      BY <3>0, <3>2
    <3>4. cc[2 * j - 1] * HexBase + cc[2 * j] = c[2 * j - 1] * HexBase + c[2 * j]
      BY <1>2 DEF Pairs
    <3> DEFINE v == cc[2 * j - 1]
               w == c[2 * j - 1]
    <3>5. \A x, y \in 0 .. (HexBase - 1) : v * HexBase + x = w * HexBase + y => v = w /\ x = y
      <4>1. v \in Nat /\ w \in Nat
        BY <3>3
      <4> HIDE DEF v, w
      <4> QED
        BY <3>0, <4>1, ProductFacts
    <3> QED
      BY <3>2, <3>4, <3>5
  <2>2. \A i \in 1 .. (2 * n) : cc[i] = c[i]
    BY <2>1, Places
  <2> QED
    BY <2>2 DEF Digits
<1> QED
  BY <1>1, <1>2

\* Bytes and their digits are the same number.
LEMMA PairsValue ==
  ASSUME NEW n \in Nat, NEW b \in Digits(ByteSize, n), NEW c \in Digits(HexBase, 2 * n), Pairs(b, c, n)
  PROVE  ValueOf(b, ByteSize) = ValueOf(c, HexBase)
<1> DEFINE T == {k \in 0 .. n : \A bb \in Digits(ByteSize, k), cc \in Digits(HexBase, 2 * k) :
                    Pairs(bb, cc, k) => ValueOf(bb, ByteSize) = ValueOf(cc, HexBase)}
<1>0. HexBase \in Nat \ {0} /\ ByteSize \in Nat \ {0} /\ ByteSize = HexBase * HexBase
  BY Bases
<1>1. 0 \in T
  <2> SUFFICES ASSUME NEW bb \in Digits(ByteSize, 0), NEW cc \in Digits(HexBase, 2 * 0)
               PROVE  ValueOf(bb, ByteSize) = ValueOf(cc, HexBase)
    OBVIOUS
  <2>1. bb \in [1 .. 0 -> Nat] /\ cc \in [1 .. 0 -> Nat] /\ 0 \in Nat
    BY DEF Digits
  <2>2. ValueOf(bb, ByteSize) = 0 /\ ValueOf(cc, HexBase) = 0
    BY <1>0, <2>1, ValueFacts
  <2> QED
    BY <2>2
<1>2. ASSUME NEW k \in 0 .. (n - 1), k \in T
      PROVE  k + 1 \in T
  <2> SUFFICES ASSUME NEW bb \in Digits(ByteSize, k + 1), NEW cc \in Digits(HexBase, 2 * (k + 1)),
                      Pairs(bb, cc, k + 1)
               PROVE  ValueOf(bb, ByteSize) = ValueOf(cc, HexBase)
    OBVIOUS
  <2> DEFINE low == Firsts(bb, k)
             most == Firsts(cc, 2 * k + 1)
             high == Firsts(most, 2 * k)
             x == cc[2 * k + 1]
             y == cc[2 * k + 2]
  <2>1. /\ k \in Nat /\ 2 * k \in Nat /\ 2 * k + 1 \in Nat /\ (2 * k + 1) + 1 = 2 * k + 2
        /\ 2 * (k + 1) = (2 * k + 1) + 1 /\ 2 * (k + 1) - 1 = 2 * k + 1 /\ 2 * (k + 1) = 2 * k + 2
        /\ k + 1 \in 1 .. (k + 1) /\ 2 * k + 1 \in 1 .. (2 * k + 1)
    OBVIOUS
  <2>2. /\ low \in Digits(ByteSize, k) /\ ValueOf(low, ByteSize) \in Nat
        /\ ValueOf(bb, ByteSize) = ValueOf(low, ByteSize) * ByteSize + bb[k + 1]
    BY <1>0, <2>1, OneDigit
  <2>3. cc \in Digits(HexBase, (2 * k + 1) + 1)
    BY <2>1
  <2>4. /\ most \in Digits(HexBase, 2 * k + 1) /\ y \in 0 .. (HexBase - 1)
        /\ ValueOf(cc, HexBase) = ValueOf(most, HexBase) * HexBase + y
    BY <1>0, <2>1, <2>3, OneDigit
  <2>5. /\ high \in Digits(HexBase, 2 * k) /\ most[2 * k + 1] \in 0 .. (HexBase - 1)
        /\ ValueOf(high, HexBase) \in Nat
        /\ ValueOf(most, HexBase) = ValueOf(high, HexBase) * HexBase + most[2 * k + 1]
    <3> HIDE DEF most
    <3> QED BY <1>0, <2>1, <2>4, OneDigit
  <2>6. most[2 * k + 1] = x
    BY <2>1 DEF Firsts
  <2>7. bb[k + 1] = x * HexBase + y
    BY <2>1 DEF Pairs
  <2>8. Pairs(low, high, k)
    <3>1. ASSUME NEW j \in 1 .. k
          PROVE  low[j] = high[2 * j - 1] * HexBase + high[2 * j]
      <4>1. /\ j \in 1 .. (k + 1)
            /\ 2 * j - 1 \in 1 .. (2 * k) /\ 2 * j \in 1 .. (2 * k)
            /\ 2 * j - 1 \in 1 .. (2 * k + 1) /\ 2 * j \in 1 .. (2 * k + 1)
        OBVIOUS
      <4>2. low[j] = bb[j] /\ high[2 * j - 1] = cc[2 * j - 1] /\ high[2 * j] = cc[2 * j]
        BY <4>1 DEF Firsts
      <4>3. bb[j] = cc[2 * j - 1] * HexBase + cc[2 * j]
        BY <4>1 DEF Pairs
      <4> QED
        BY <4>2, <4>3
    <3> QED
      BY <3>1 DEF Pairs
  <2> HIDE DEF low, most, high, x, y
  <2>9. ValueOf(low, ByteSize) = ValueOf(high, HexBase)
    BY <1>2, <2>2, <2>5, <2>8
  <2>10. \A v, xx, yy \in Nat :
            v * (HexBase * HexBase) + (xx * HexBase + yy) = (v * HexBase + xx) * HexBase + yy
    BY <1>0
  <2>11. x \in Nat /\ y \in Nat
    BY <1>0, <2>4, <2>5, <2>6
  <2> DEFINE v == ValueOf(high, HexBase)
  <2>12. /\ ValueOf(bb, ByteSize) = v * (HexBase * HexBase) + (x * HexBase + y)
         /\ ValueOf(cc, HexBase) = (v * HexBase + x) * HexBase + y
    BY <1>0, <2>2, <2>4, <2>5, <2>6, <2>7, <2>9
  <2>13. v \in Nat
    BY <2>5
  <2> HIDE DEF v
  <2> QED
    BY <2>10, <2>11, <2>12, <2>13
<1>3. 0 .. n \subseteq T
  <2> HIDE DEF T
  <2> QED BY <1>1, <1>2, Induction
<1> QED
  BY <1>3

-----------------------------------------------------------------------------
(* Reading and printing.                                                   *)

Padded(chars) == Behind(0, LONG_STRING_LENGTH - Len(chars), chars)

LEMMA CaseFacts ==
  /\ HexBase \in Nat \ {0, 1} /\ Decimals \in 1 .. HexBase /\ LowerCase \in Nat
  /\ HexBase <= Decimals + LowerCase /\ HexBase - 1 + LowerCase <= Letters
  /\ Letters \in Nat /\ HexBase <= Letters
BY Bases, AddressAssumption DEF AddressAssumption

\* A digit printed in lower case is a hexadecimal character, and read as the digit.
LEMMA LowerIsRead ==
  ASSUME NEW n \in Nat, NEW d \in Digits(HexBase, n)
  PROVE  /\ Lower(d) \in Digits(Letters + 2, n) /\ IsHex(Lower(d)) /\ DigitsIn(Lower(d)) = d
<1> DEFINE low == Lower(d)
<1>1. DOMAIN d = 1 .. n /\ \A i \in 1 .. n : d[i] \in 0 .. (HexBase - 1)
  BY DEF Digits
<1>2. /\ low = [i \in 1 .. n |-> low[i]]
      /\ \A i \in 1 .. n : low[i] = IF d[i] < Decimals THEN d[i] ELSE d[i] + LowerCase
  BY <1>1 DEF Lower
<1> HIDE DEF low
<1>3. ASSUME NEW i \in 1 .. n
      PROVE  /\ low[i] \in 0 .. ((Letters + 2) - 1) /\ low[i] \in HexCharacters
             /\ (IF low[i] < HexBase THEN low[i] ELSE low[i] - LowerCase) = d[i]
  <2>1. d[i] \in 0 .. (HexBase - 1) /\ low[i] = IF d[i] < Decimals THEN d[i] ELSE d[i] + LowerCase
    BY <1>1, <1>2
  <2>2. CASE d[i] < Decimals
    BY <2>1, <2>2, CaseFacts DEF HexCharacters
  <2>3. CASE ~(d[i] < Decimals)
    <3>1. low[i] = d[i] + LowerCase /\ d[i] \in Nat /\ d[i] >= Decimals /\ d[i] <= HexBase - 1
      BY <2>1, <2>3, CaseFacts
    <3>2. low[i] \in (Decimals + LowerCase) .. (HexBase - 1 + LowerCase)
      BY <3>1, CaseFacts
    <3> QED
      BY <3>1, <3>2, CaseFacts DEF HexCharacters
  <2> QED
    BY <2>2, <2>3
<1>4. low \in Digits(Letters + 2, n)
  BY <1>2, <1>3 DEF Digits
<1>5. DOMAIN low = 1 .. n
  BY <1>2
<1>6. IsHex(low)
  BY <1>3, <1>5 DEF IsHex
<1>7. DigitsIn(low) = d
  <2>1. DigitsIn(low) = [i \in 1 .. n |-> d[i]]
    BY <1>3, <1>5 DEF DigitsIn
  <2>2. d = [i \in 1 .. n |-> d[i]]
    BY DEF Digits
  <2> QED
    BY <2>1, <2>2
<1> QED
  BY <1>4, <1>6, <1>7 DEF low

\* Hexadecimal characters of either case are digits.
LEMMA HexIsDigits ==
  ASSUME NEW n \in Nat, NEW chars \in Digits(Letters + 2, n)
  PROVE  /\ Len(chars) = n /\ DOMAIN DigitsIn(chars) = 1 .. n
         /\ IsHex(chars) => DigitsIn(chars) \in Digits(HexBase, n)
         /\ \A i \in 1 .. n : chars[i] = 0 => DigitsIn(chars)[i] = 0 /\ chars[i] \in HexCharacters
<1>1. DOMAIN chars = 1 .. n /\ Len(chars) = n
  BY DEF Digits
<1>2. ASSUME NEW i \in 1 .. n, chars[i] \in HexCharacters
      PROVE  DigitsIn(chars)[i] \in 0 .. (HexBase - 1)
  <2>1. DigitsIn(chars)[i] = IF chars[i] < HexBase THEN chars[i] ELSE chars[i] - LowerCase
    BY <1>1 DEF DigitsIn
  <2>2. CASE chars[i] \in 0 .. (HexBase - 1)
    BY <2>1, <2>2, CaseFacts
  <2>3. CASE chars[i] \in (Decimals + LowerCase) .. (HexBase - 1 + LowerCase)
    <3>1. chars[i] \in Nat /\ chars[i] >= HexBase /\ chars[i] - LowerCase \in 0 .. (HexBase - 1)
      BY <2>3, CaseFacts
    <3> QED
      BY <2>1, <3>1, CaseFacts
  <2> QED
    BY <1>2, <2>2, <2>3 DEF HexCharacters
<1>3. DigitsIn(chars) = [i \in 1 .. n |-> DigitsIn(chars)[i]]
  BY <1>1 DEF DigitsIn
<1>4. ASSUME NEW i \in 1 .. n, chars[i] = 0
      PROVE  DigitsIn(chars)[i] = 0 /\ chars[i] \in HexCharacters
  BY <1>1, <1>4, CaseFacts DEF DigitsIn, HexCharacters
<1>5. IsHex(chars) => DigitsIn(chars) \in Digits(HexBase, n)
  BY <1>1, <1>2, <1>3 DEF IsHex, Digits
<1> QED
  BY <1>1, <1>3, <1>4, <1>5

LEMMA ReadingFacts ==
  /\ \A bytes : IsValid(Valid(bytes)) /\ Valid(bytes).data = bytes
  /\ \A bytes : Len(bytes) = LENGTH => NewAccountAddress(bytes) = Valid(bytes)
  /\ \A bytes : IsValid(NewAccountAddress(bytes)) => Len(bytes) = LENGTH
  /\ ~IsValid(NotRead) /\ ~IsValid(Invalid("leading_zero_x_required"))
BY DEF IsValid, Valid, NewAccountAddress, Invalid, NotRead

\* How fromString reads a text, by the base it is read in.
LEMMA fromStringFacts ==
  ASSUME NEW text, Len(text.chars) \in Nat
  PROVE  /\ IsValid(fromBs58String(text)) => fromString(text) = fromBs58String(text)
         /\ ~IsValid(fromBs58String(text)) /\ Len(text.chars) \in 1 .. LONG_STRING_LENGTH =>
              /\ IsHex(Padded(text.chars)) =>
                   fromString(text) = NewAccountAddress(hexToBytes(Padded(text.chars)))
              /\ IsValid(fromString(text)) => IsHex(Padded(text.chars))
         /\ ~IsValid(fromBs58String(text)) /\ IsValid(fromString(text)) =>
              Len(text.chars) \in 1 .. LONG_STRING_LENGTH
<1> DEFINE bs == IsValid(fromBs58String(text))
           l == Len(text.chars)
           padded == Padded(text.chars)
<1>1. LONG_STRING_LENGTH \in Nat
  BY Bases DEF LONG_STRING_LENGTH
<1>2. fromString(text) =
        CASE bs -> fromBs58String(text)
          [] ~bs /\ l = 0 -> Invalid("too_short")
          [] ~bs /\ l > LONG_STRING_LENGTH -> Invalid("too_long")
          [] ~bs /\ l \in 1 .. LONG_STRING_LENGTH ->
               IF IsHex(padded) THEN NewAccountAddress(hexToBytes(padded)) ELSE Invalid("invalid_hex_chars")
  BY DEF fromString, Padded, Behind
<1> HIDE DEF bs, l, padded
<1>3. ~IsValid(Invalid("too_short")) /\ ~IsValid(Invalid("too_long")) /\ ~IsValid(Invalid("invalid_hex_chars"))
  BY DEF IsValid, Invalid
<1>4. bs => fromString(text) = fromBs58String(text)
  <2> SUFFICES ASSUME bs PROVE fromString(text) = fromBs58String(text)
    OBVIOUS
  <2> QED
    BY <1>2
<1>5. ~bs /\ l \in 1 .. LONG_STRING_LENGTH =>
        fromString(text) =
           IF IsHex(padded) THEN NewAccountAddress(hexToBytes(padded)) ELSE Invalid("invalid_hex_chars")
  <2> SUFFICES ASSUME ~bs, l \in 1 .. LONG_STRING_LENGTH
               PROVE  fromString(text) = IF IsHex(padded) THEN NewAccountAddress(hexToBytes(padded))
                                         ELSE Invalid("invalid_hex_chars")
    OBVIOUS
  <2>1. l # 0 /\ ~(l > LONG_STRING_LENGTH)
    BY <1>1
  <2> QED
    BY <1>2, <2>1
<1>6. ~bs /\ l = 0 => fromString(text) = Invalid("too_short")
  <2> SUFFICES ASSUME ~bs, l = 0 PROVE fromString(text) = Invalid("too_short")
    OBVIOUS
  <2>1. ~(l > LONG_STRING_LENGTH) /\ ~(l \in 1 .. LONG_STRING_LENGTH)
    BY <1>1
  <2> QED
    BY <1>2, <2>1
<1>7. ~bs /\ l > LONG_STRING_LENGTH => fromString(text) = Invalid("too_long")
  <2> SUFFICES ASSUME ~bs, l > LONG_STRING_LENGTH PROVE fromString(text) = Invalid("too_long")
    OBVIOUS
  <2>1. l # 0 /\ ~(l \in 1 .. LONG_STRING_LENGTH)
    BY <1>1
  <2> QED
    BY <1>2, <2>1
<1>8. l \in Nat
  BY DEF l
<1>9. l = 0 \/ l > LONG_STRING_LENGTH \/ l \in 1 .. LONG_STRING_LENGTH
  BY <1>1, <1>8
<1> QED
  BY <1>3, <1>4, <1>5, <1>6, <1>7, <1>9 DEF bs, l, padded

\* A text of LONG_STRING_LENGTH characters or of one is not an address in base 58.
LEMMA NotBs58 ==
  ASSUME NEW n \in {1, LONG_STRING_LENGTH}, NEW b \in Nat, NEW text, text.chars \in Digits(b, n)
  PROVE  ~IsValid(fromBs58String(text))
<1> SUFFICES ASSUME IsValid(fromBs58String(text)) PROVE FALSE
  OBVIOUS
<1>1. IsBs58(text.chars) /\ IsValid(NewAccountAddress(bs58decode(text.chars)))
  BY DEF fromBs58String, IsValid, Invalid
<1>2. text.chars \in Lettered(n)
  BY <1>1 DEF IsBs58, Digits, Lettered
<1>3. Len(bs58decode(text.chars)) = LENGTH
  BY <1>1, ReadingFacts
<1> QED
  BY <1>2, <1>3, LongIsNotBs58

\* The digits that are read, the zeroes in front of them included.
LEMMA PaddedFacts ==
  ASSUME NEW b \in Nat \ {0}, NEW n \in 1 .. LONG_STRING_LENGTH, NEW chars \in Digits(b, n)
  PROVE  /\ Len(chars) = n /\ Padded(chars) = Behind(0, LONG_STRING_LENGTH - n, chars)
         /\ Padded(chars) \in Digits(b, LONG_STRING_LENGTH)
         /\ \A i \in 1 .. (LONG_STRING_LENGTH - n) : Padded(chars)[i] = 0
         /\ \A i \in 1 .. n : Padded(chars)[(LONG_STRING_LENGTH - n) + i] = chars[i]
         /\ ValueOf(Padded(chars), b) = ValueOf(chars, b)
         /\ n = LONG_STRING_LENGTH => Padded(chars) = chars
<1> DEFINE L == LONG_STRING_LENGTH
           z == L - n
           p == Padded(chars)
<1>1. L \in Nat
  BY Bases DEF LONG_STRING_LENGTH
<1> HIDE DEF L
<1>2. n \in 1 .. L
  BY DEF L
<1>3. z \in Nat /\ n \in Nat /\ z + n = L /\ 0 \in 0 .. (b - 1) /\ b \in Nat
  BY <1>1, <1>2
<1>4. Len(chars) = n
  BY <1>3 DEF Digits
<1>5. p = Behind(0, z, chars)
  BY <1>4 DEF Padded, L
<1> HIDE DEF z, p
<1>6. /\ Behind(0, z, chars) \in Digits(b, z + n)
      /\ \A i \in 1 .. z : Behind(0, z, chars)[i] = 0
      /\ \A i \in 1 .. n : Behind(0, z, chars)[z + i] = chars[i]
  BY <1>3, RepeatedFacts
<1>7. /\ p \in Digits(b, z + n)
      /\ \A i \in 1 .. z : p[i] = 0
      /\ \A i \in 1 .. n : p[z + i] = chars[i]
  BY <1>5, <1>6
<1>8. ValueOf(p, b) = ValueOf(chars, b)
  BY <1>3, <1>7, ZerosInFront
<1>9. n = L => p = chars
  <2> SUFFICES ASSUME n = L PROVE p = chars
    OBVIOUS
  <2>1. z = 0
    BY <1>3
  <2>2. \A i \in 1 .. n : 0 + i = i
    OBVIOUS
  <2>3. \A i \in 1 .. n : p[i] = chars[i]
    BY <1>7, <2>1, <2>2
  <2> QED
    BY <1>3, <1>7, <2>3 DEF Digits
<1> QED
  BY <1>3, <1>4, <1>5, <1>7, <1>8, <1>9 DEF p, z, L

\* The zeroes in front are digits of any text.
LEMMA PaddedDigits ==
  ASSUME NEW n \in 1 .. LONG_STRING_LENGTH, NEW chars \in Digits(Letters + 2, n)
  PROVE  /\ Padded(chars) \in Digits(Letters + 2, LONG_STRING_LENGTH)
         /\ IsHex(Padded(chars)) <=> IsHex(chars)
         /\ IsHex(chars) => DigitsIn(Padded(chars)) = Padded(DigitsIn(chars))
<1> DEFINE L == LONG_STRING_LENGTH
           p == Padded(chars)
<1>1. L \in Nat /\ n \in Nat /\ n <= L /\ L - n \in Nat /\ Letters + 2 \in Nat \ {0}
  BY Bases DEF LONG_STRING_LENGTH
<1>2. /\ p \in Digits(Letters + 2, L)
      /\ \A i \in 1 .. (L - n) : p[i] = 0
      /\ \A i \in 1 .. n : p[(L - n) + i] = chars[i]
  BY <1>1, PaddedFacts
<1> HIDE DEF L, p
<1>3. /\ DOMAIN p = 1 .. L /\ DOMAIN chars = 1 .. n
      /\ \A i \in 1 .. L : i \in 1 .. (L - n) \/ \E j \in 1 .. n : i = (L - n) + j
  <2>1. ASSUME NEW i \in 1 .. L, ~(i \in 1 .. (L - n))
        PROVE  \E j \in 1 .. n : i = (L - n) + j
    <3>1. i - (L - n) \in 1 .. n /\ i = (L - n) + (i - (L - n))
      BY <1>1, <2>1
    <3> QED
      BY <3>1
  <2> QED
    BY <1>2, <2>1 DEF Digits
<1>4. \A i \in 1 .. n : (L - n) + i \in 1 .. L
  BY <1>1
<1>5. \A i \in 1 .. (L - n) : i \in 1 .. L
  BY <1>1
<1>6. IsHex(p) <=> IsHex(chars)
  <2>1. IsHex(p) => IsHex(chars)
    BY <1>2, <1>3, <1>4 DEF IsHex
  <2>2. ASSUME IsHex(chars), NEW i \in 1 .. L
        PROVE  p[i] \in HexCharacters
    <3>1. CASE i \in 1 .. (L - n)
      BY <1>1, <1>2, <3>1, HexIsDigits
    <3>2. CASE \E j \in 1 .. n : i = (L - n) + j
      BY <1>2, <1>3, <2>2, <3>2 DEF IsHex
    <3> QED
      BY <1>3, <3>1, <3>2
  <2> QED
    BY <1>3, <2>1, <2>2 DEF IsHex
<1>7. ASSUME IsHex(chars)
      PROVE  DigitsIn(p) = Padded(DigitsIn(chars))
  <2> DEFINE d == DigitsIn(chars)
             q == Padded(d)
             e == DigitsIn(p)
  <2>1. d \in Digits(HexBase, n) /\ e \in Digits(HexBase, L)
    BY <1>1, <1>2, <1>6, <1>7, HexIsDigits
  <2>2. \A i \in 1 .. (L - n) : e[i] = 0
    BY <1>1, <1>2, <1>5, HexIsDigits
  <2>3. ASSUME NEW i \in 1 .. n
        PROVE  e[(L - n) + i] = d[i]
    <3>1. p[(L - n) + i] = chars[i] /\ (L - n) + i \in DOMAIN p /\ i \in DOMAIN chars
      BY <1>2, <1>3, <1>4
    <3> QED
      BY <3>1 DEF DigitsIn
  <2> HIDE DEF d, e
  <2>4. /\ q \in Digits(HexBase, L)
        /\ \A i \in 1 .. (L - n) : q[i] = 0
        /\ \A i \in 1 .. n : q[(L - n) + i] = d[i]
    BY <2>1, PaddedFacts, Bases DEF L
  <2> HIDE DEF q
  <2>5. \A i \in 1 .. L : e[i] = q[i]
    <3>1. ASSUME NEW i \in 1 .. L
          PROVE  e[i] = q[i]
      <4>1. CASE i \in 1 .. (L - n)
        BY <2>2, <2>4, <4>1
      <4>2. CASE \E j \in 1 .. n : i = (L - n) + j
        BY <2>3, <2>4, <4>2
      <4> QED
        BY <1>3, <4>1, <4>2
    <3> QED
      BY <3>1
  <2>6. e = q
    <3>1. e = [i \in 1 .. L |-> e[i]] /\ q = [i \in 1 .. L |-> q[i]]
      BY <2>1, <2>4 DEF Digits
    <3>2. [i \in 1 .. L |-> e[i]] = [i \in 1 .. L |-> q[i]]
      BY <2>5
    <3> QED
      BY <3>1, <3>2
  <2> QED
    BY <2>6 DEF d, e, q
<1> QED
  BY <1>2, <1>6, <1>7 DEF L, p

\* Hexadecimal digits that are the digits of an address are read as that address.
LEMMA ReadsHex ==
  ASSUME NEW bytes \in Digits(ByteSize, LENGTH), NEW n \in {1, LONG_STRING_LENGTH}, NEW text,
         text.chars \in Digits(Letters + 2, n), IsHex(text.chars),
         Pairs(bytes, Padded(DigitsIn(text.chars)), LENGTH)
  PROVE  fromString(text) = Valid(bytes)
<1> DEFINE chars == text.chars
           padded == Padded(DigitsIn(chars))
<1>1. /\ LENGTH \in Nat /\ HexBase \in Nat \ {0} /\ LONG_STRING_LENGTH = 2 * LENGTH
      /\ n \in 1 .. LONG_STRING_LENGTH /\ n \in Nat /\ Letters + 2 \in Nat
  BY Bases DEF LONG_STRING_LENGTH
<1>2. ~IsValid(fromBs58String(text))
  BY <1>1, NotBs58
<1>3. Len(chars) = n /\ padded \in Digits(HexBase, 2 * LENGTH)
  BY <1>1, HexIsDigits, PaddedFacts
<1>4. IsHex(Padded(chars)) /\ DigitsIn(Padded(chars)) = padded
  BY <1>1, PaddedDigits
<1>5. fromString(text) = NewAccountAddress(bytesOfDigits(padded))
  <2>1. fromString(text) = NewAccountAddress(hexToBytes(Padded(chars)))
    BY <1>1, <1>2, <1>3, <1>4, fromStringFacts
  <2> QED
    BY <1>4, <2>1 DEF hexToBytes
<1>6. bytesOfDigits(padded) \in Digits(ByteSize, LENGTH) /\ Pairs(bytesOfDigits(padded), padded, LENGTH)
  <2> HIDE DEF padded
  <2> QED BY <1>1, <1>3, bytesOfDigitsFacts
<1>7. bytesOfDigits(padded) = bytes
  <2>1. Pairs(bytes, padded, LENGTH)
    OBVIOUS
  <2> HIDE DEF padded
  <2> QED
    BY <1>1, <1>3, <1>6, <2>1, PairsAreUnique
<1>8. Len(bytes) = LENGTH
  BY <1>1 DEF Digits
<1> QED
  BY <1>5, <1>7, <1>8, ReadingFacts

LEMMA TextFacts ==
  ASSUME NEW p, NEW c
  PROVE  Text(p, c).prefix = p /\ Text(p, c).chars = c
BY DEF Text

\* The last digit of a special address is all of it.
LEMMA SpecialFacts ==
  ASSUME NEW data \in Digits(ByteSize, LENGTH), isSpecial(data)
  PROVE  LET c == <<digitsOfBytes(data)[LONG_STRING_LENGTH]>>
         IN  /\ c \in Digits(HexBase, 1) /\ Pairs(data, Padded(c), LENGTH)
             /\ Padded(c) = digitsOfBytes(data)
<1> DEFINE hex == digitsOfBytes(data)
           L == LONG_STRING_LENGTH
           c == <<hex[L]>>
           padded == Padded(c)
<1>1. /\ LENGTH \in Nat \ {0, 1} /\ HexBase \in Nat \ {0} /\ L = 2 * LENGTH /\ L \in Nat
      /\ 1 \in 1 .. L /\ L \in 1 .. L /\ LENGTH \in 1 .. LENGTH /\ L - 1 \in 1 .. L
      /\ (L - 1) + 1 = L /\ 1 \in 1 .. 1
  BY Bases DEF LONG_STRING_LENGTH
<1>2. hex \in Digits(HexBase, 2 * LENGTH) /\ Pairs(data, hex, LENGTH)
  BY <1>1, digitsOfBytesFacts
<1> HIDE DEF hex, L
<1>3. \A i \in 1 .. L : hex[i] \in 0 .. (HexBase - 1)
  BY <1>1, <1>2 DEF Digits
<1>4. \A i \in 1 .. (L - 1) : hex[i] = 0
  <2>1. ASSUME NEW j \in 1 .. (LENGTH - 1)
        PROVE  hex[2 * j - 1] = 0 /\ hex[2 * j] = 0
    <3>1. j \in 1 .. LENGTH /\ 2 * j - 1 \in 1 .. L /\ 2 * j \in 1 .. L
      BY <1>1
    <3>2. data[j] = 0
      BY DEF isSpecial
    <3>3. hex[2 * j - 1] * HexBase + hex[2 * j] = 0
      BY <1>2, <3>1, <3>2 DEF Pairs
    <3>4. hex[2 * j - 1] \in Nat /\ hex[2 * j] \in 0 .. (HexBase - 1)
      BY <1>1, <1>3, <3>1
    <3> DEFINE v == hex[2 * j - 1]
               y == hex[2 * j]
    <3>5. v \in Nat /\ y \in 0 .. (HexBase - 1) /\ v * HexBase + y = 0
      BY <3>3, <3>4
    <3> HIDE DEF v, y
    <3>6. 0 \in Nat /\ 0 \in 0 .. (HexBase - 1) /\ 0 * HexBase + 0 = 0
      BY <1>1
    <3>7. v = 0 /\ y = 0
      <4>1. \A x, w \in 0 .. (HexBase - 1) : v * HexBase + x = 0 * HexBase + w => v = 0 /\ x = w
        BY <1>1, <3>5, <3>6, ProductFacts
      <4> QED
        BY <3>5, <3>6, <4>1
    <3> QED
      BY <3>7 DEF v, y
  <2>2. hex[L - 1] = 0
    <3>1. 2 * LENGTH - 1 = L - 1 /\ 2 * LENGTH = L
      BY <1>1
    <3>2. data[LENGTH] = hex[L - 1] * HexBase + hex[L]
      BY <1>1, <1>2, <3>1 DEF Pairs
    <3>3. data[LENGTH] < HexBase
      BY DEF isSpecial
    <3> DEFINE v == hex[L - 1]
               y == hex[L]
    <3>4. v \in Nat /\ y \in Nat /\ v * HexBase + y < HexBase
      BY <1>1, <1>3, <3>2, <3>3
    <3> HIDE DEF v, y
    <3>5. \A w \in Nat : 1 <= w => 1 * HexBase <= w * HexBase
      BY <1>1, ProductFacts
    <3>6. v * HexBase \in Nat
      BY <1>1, <3>4, ProductFacts
    <3>7. v = 0
      BY <1>1, <3>4, <3>5, <3>6
    <3> QED
      BY <3>7 DEF v
  <2> QED
    <3>1. ASSUME NEW i \in 1 .. (L - 1)
          PROVE  hex[i] = 0
      <4>1. i \in 1 .. (2 * LENGTH)
        BY <1>1
      <4>2. PICK j \in 1 .. LENGTH : i = 2 * j - 1 \/ i = 2 * j
        BY <1>1, <4>1, Places
      <4>3. CASE j = LENGTH
        BY <1>1, <2>2, <4>2, <4>3
      <4>4. CASE j # LENGTH
        <5>1. j \in 1 .. (LENGTH - 1)
          BY <1>1, <4>4
        <5> QED
          BY <2>1, <4>2, <5>1
      <4> QED
        BY <4>3, <4>4
    <3> QED
      BY <3>1
<1>5. c \in Digits(HexBase, 1) /\ c[1] = hex[L]
  BY <1>1, <1>3 DEF Digits
<1> HIDE DEF c
<1>6. /\ padded \in Digits(HexBase, L)
      /\ \A i \in 1 .. (L - 1) : padded[i] = 0
      /\ \A i \in 1 .. 1 : padded[(L - 1) + i] = c[i]
  BY <1>1, <1>5, PaddedFacts DEF L
<1> HIDE DEF padded
<1>7. padded = hex
  <2>1. padded[L] = hex[L]
    BY <1>1, <1>5, <1>6
  <2>2. \A i \in 1 .. L : i \in 1 .. (L - 1) \/ i = L
    BY <1>1
  <2>3. \A i \in 1 .. L : padded[i] = hex[i]
    BY <1>4, <1>6, <2>1, <2>2
  <2> QED
    BY <1>1, <1>2, <1>6, <2>3 DEF Digits
<1> QED
  BY <1>2, <1>5, <1>7 DEF c, hex, L, padded

\* The last letter that is printed is that of the last digit.
LEMMA LowerLast ==
  ASSUME NEW data \in Digits(ByteSize, LENGTH)
  PROVE  <<bytesToHex(data)[LONG_STRING_LENGTH]>> = Lower(<<digitsOfBytes(data)[LONG_STRING_LENGTH]>>)
<1> DEFINE digits == digitsOfBytes(data)
           L == LONG_STRING_LENGTH
           low(x) == IF x < Decimals THEN x ELSE x + LowerCase
<1>1. LENGTH \in Nat \ {0, 1} /\ L = 2 * LENGTH /\ L \in 1 .. L
  BY Bases DEF LONG_STRING_LENGTH
<1>2. digits \in Digits(HexBase, L)
  BY <1>1, digitsOfBytesFacts
<1> HIDE DEF digits, L
<1>3. L \in DOMAIN digits
  BY <1>1, <1>2 DEF Digits
<1>4. Lower(digits)[L] = low(digits[L])
  BY <1>3 DEF Lower
<1>5. Lower(<<digits[L]>>) = <<low(digits[L])>>
  BY DEF Lower
<1> QED
  BY <1>4, <1>5 DEF bytesToHex, digits, L

\* What is printed of an address is read as the address, by both if it begins with "0x".
LEMMA PrintedIsRead ==
  ASSUME NEW data \in Addresses, NEW text \in Printed(data)
  PROVE  /\ fromString(text) = Valid(data)
         /\ text.prefix \in BOOLEAN
         /\ text.prefix => fromStringStrict(text) = Valid(data)
<1>1. /\ LENGTH \in Nat \ {0, 1} /\ LONG_STRING_LENGTH = 2 * LENGTH /\ HexBase \in Nat \ {0}
      /\ 1 \in {1, LONG_STRING_LENGTH} /\ LONG_STRING_LENGTH \in {1, LONG_STRING_LENGTH}
      /\ 1 \in 1 .. LONG_STRING_LENGTH /\ LONG_STRING_LENGTH \in 1 .. LONG_STRING_LENGTH
      /\ LONG_STRING_LENGTH # 1
  BY Bases DEF LONG_STRING_LENGTH
<1>2. data \in Digits(ByteSize, LENGTH) /\ Len(data) = LENGTH
  BY <1>1 DEF Addresses, Digits
<1>3. CASE text = toBs58String(data)
  <2>1. text.prefix = FALSE /\ text.chars = bs58encode(data)
    BY <1>3, TextFacts DEF toBs58String
  <2>2. PICK l \in Nat : text.chars \in Lettered(l) /\ bs58decode(text.chars) = data
    BY <1>1, <1>2, <2>1, bs58encodeFacts
  <2>3. IsBs58(text.chars) /\ Len(text.chars) \in Nat
    BY <2>2 DEF Lettered, IsBs58
  <2>4. fromBs58String(text) = Valid(data)
    BY <1>2, <2>1, <2>2, <2>3, ReadingFacts DEF fromBs58String
  <2> QED
    BY <2>1, <2>3, <2>4, fromStringFacts, ReadingFacts
<1>4. CASE \E p \in BOOLEAN : text = Text(p, bytesToHex(data))
  <2> DEFINE digits == digitsOfBytes(data)
  <2>1. text.chars = Lower(digits) /\ text.prefix \in BOOLEAN
    BY <1>4, TextFacts DEF bytesToHex
  <2>2. digits \in Digits(HexBase, LONG_STRING_LENGTH) /\ Pairs(data, digits, LENGTH)
    BY <1>1, <1>2, digitsOfBytesFacts
  <2> HIDE DEF digits
  <2>3. /\ text.chars \in Digits(Letters + 2, LONG_STRING_LENGTH) /\ IsHex(text.chars)
        /\ DigitsIn(text.chars) = digits /\ Padded(digits) = digits
        /\ Len(text.chars) = LONG_STRING_LENGTH
    BY <1>1, <2>1, <2>2, PaddedFacts, LowerIsRead, HexIsDigits
  <2>4. fromString(text) = Valid(data)
    BY <1>1, <1>2, <2>2, <2>3, ReadsHex
  <2>5. text.prefix => fromStringStrict(text) = Valid(data)
    BY <2>1, <2>3, <2>4, ReadingFacts DEF fromStringStrict
  <2> QED
    BY <2>1, <2>4, <2>5
<1>5. CASE isSpecial(data) /\ \E p \in BOOLEAN : text = Text(p, <<bytesToHex(data)[LONG_STRING_LENGTH]>>)
  <2> DEFINE digits == <<digitsOfBytes(data)[LONG_STRING_LENGTH]>>
  <2>1. text.chars = <<bytesToHex(data)[LONG_STRING_LENGTH]>> /\ text.prefix \in BOOLEAN
    BY <1>5, TextFacts
  <2>2. digits \in Digits(HexBase, 1) /\ Pairs(data, Padded(digits), LENGTH)
    BY <1>2, <1>5, SpecialFacts
  <2>3. Len(text.chars) = 1
    BY <2>1
  <2>4. text.chars = Lower(digits)
    BY <1>1, <1>2, <2>1, LowerLast
  <2> HIDE DEF digits
  <2>5. /\ text.chars \in Digits(Letters + 2, 1) /\ IsHex(text.chars)
        /\ DigitsIn(text.chars) = digits
    BY <2>2, <2>4, LowerIsRead
  <2>6. fromString(text) = Valid(data)
    BY <1>1, <1>2, <2>2, <2>5, ReadsHex
  <2>7. text.prefix => fromStringStrict(text) = Valid(data)
    BY <1>1, <1>5, <2>1, <2>3, <2>6, ReadingFacts DEF fromStringStrict
  <2> QED
    BY <2>1, <2>6, <2>7
<1> QED
  BY <1>3, <1>4, <1>5
  DEF Printed, toString, toStringLong, toStringWithoutPrefix, toStringLongWithoutPrefix

\* What fromString takes as hexadecimal.
LEMMA TakenAsHex ==
  ASSUME NEW n \in Nat, NEW text, text.chars \in Digits(Letters + 2, n),
         ~IsValid(fromBs58String(text)), IsValid(fromString(text))
  PROVE  LET digits == DigitsIn(text.chars)
         IN  /\ n \in 1 .. LONG_STRING_LENGTH /\ IsHex(text.chars)
             /\ digits \in Digits(HexBase, n)
             /\ Padded(digits) \in Digits(HexBase, 2 * LENGTH)
             /\ bytesOfDigits(Padded(digits)) \in Digits(ByteSize, LENGTH)
             /\ Pairs(bytesOfDigits(Padded(digits)), Padded(digits), LENGTH)
             /\ fromString(text) = Valid(bytesOfDigits(Padded(digits)))
<1> DEFINE chars == text.chars
           digits == DigitsIn(chars)
           padded == Padded(digits)
<1>1. /\ LENGTH \in Nat /\ HexBase \in Nat \ {0} /\ LONG_STRING_LENGTH = 2 * LENGTH
      /\ LONG_STRING_LENGTH \in Nat
  BY Bases DEF LONG_STRING_LENGTH
<1>2. Len(chars) = n
  BY DEF Digits
<1>3. n \in 1 .. LONG_STRING_LENGTH /\ IsHex(Padded(chars))
  BY <1>2, fromStringFacts
<1>4. IsHex(chars) /\ DigitsIn(Padded(chars)) = padded
  BY <1>3, PaddedDigits
<1>5. digits \in Digits(HexBase, n)
  BY <1>4, HexIsDigits
<1>6. padded \in Digits(HexBase, 2 * LENGTH)
  <2> HIDE DEF digits
  <2> QED BY <1>1, <1>3, <1>5, PaddedFacts
<1> HIDE DEF padded, digits
<1>7. bytesOfDigits(padded) \in Digits(ByteSize, LENGTH) /\ Pairs(bytesOfDigits(padded), padded, LENGTH)
  BY <1>1, <1>6, bytesOfDigitsFacts
<1>8. Len(bytesOfDigits(padded)) = LENGTH
  BY <1>1, <1>7 DEF Digits
<1>9. fromString(text) = Valid(bytesOfDigits(padded))
  <2>1. fromString(text) = NewAccountAddress(hexToBytes(Padded(chars)))
    BY <1>2, <1>3, fromStringFacts
  <2> QED
    BY <1>4, <1>8, <2>1, ReadingFacts DEF hexToBytes
<1> QED
  BY <1>3, <1>4, <1>5, <1>6, <1>7, <1>9 DEF padded, digits

\* The digits of bytes that were read from digits.
LEMMA HexAgain ==
  ASSUME NEW n \in Nat, NEW chars \in Digits(HexBase, 2 * n)
  PROVE  digitsOfBytes(bytesOfDigits(chars)) = chars
<1> DEFINE bytes == bytesOfDigits(chars)
<1>1. bytes \in Digits(ByteSize, n) /\ Pairs(bytes, chars, n)
  BY bytesOfDigitsFacts
<1> HIDE DEF bytes
<1>2. digitsOfBytes(bytes) \in Digits(HexBase, 2 * n) /\ Pairs(bytes, digitsOfBytes(bytes), n)
  BY <1>1, digitsOfBytesFacts
<1>3. digitsOfBytes(bytes) = chars
  BY <1>1, <1>2, PairsAreUnique
<1> QED
  BY <1>3 DEF bytes

\* What fromStringStrict takes of a typed text is printed as that text in lower case.
LEMMA StrictIsPrinted ==
  ASSUME NEW n \in Nat, NEW text, text.chars \in Digits(Letters + 2, n),
         text = Text(text.prefix, text.chars), text.prefix \in BOOLEAN,
         IsValid(fromStringStrict(text))
  PROVE  /\ fromStringStrict(text) = fromString(text)
         /\ LowerCased(text) \in {toString(fromStringStrict(text).data),
                                  toStringLong(fromStringStrict(text).data)}
<1> DEFINE reading == fromString(text)
           chars == text.chars
           digits == DigitsIn(chars)
           padded == Padded(digits)
           bytes == bytesOfDigits(padded)
           L == LONG_STRING_LENGTH
<1>0. /\ LENGTH \in Nat \ {0, 1} /\ HexBase \in Nat \ {0} /\ L = 2 * LENGTH /\ L \in Nat
      /\ L \in 1 .. L /\ 1 \in 1 .. L /\ 1 \in 1 .. 1 /\ (L - 1) + 1 = L
  BY Bases DEF LONG_STRING_LENGTH
<1>1. Len(chars) = n
  BY DEF Digits
<1> HIDE DEF reading
<1>2. text.prefix
  <2> SUFFICES ASSUME text.prefix = FALSE PROVE FALSE
    OBVIOUS
  <2>1. fromStringStrict(text) = Invalid("leading_zero_x_required")
    BY DEF fromStringStrict
  <2> QED
    BY <2>1, ReadingFacts
<1>3. /\ IsValid(reading) /\ fromStringStrict(text) = reading
      /\ n = L \/ (isSpecial(reading.data) /\ n = 1)
  <2>1. fromStringStrict(text) =
          IF ~IsValid(reading) THEN reading
          ELSE IF n = L THEN reading
          ELSE IF ~isSpecial(reading.data) THEN Invalid("long_form_required_unless_special")
          ELSE IF n # 1 THEN Invalid("INVALID_PADDING_ZEROES")
          ELSE reading
    BY <1>1, <1>2 DEF fromStringStrict, reading
  <2>2. /\ ~IsValid(Invalid("long_form_required_unless_special"))
        /\ ~IsValid(Invalid("INVALID_PADDING_ZEROES"))
    BY DEF IsValid, Invalid
  <2> HIDE DEF L
  <2> QED
    BY <2>1, <2>2
<1>4. ~IsValid(fromBs58String(text))
  BY <1>2 DEF fromBs58String, IsValid, Invalid
<1>5. /\ n \in 1 .. L /\ digits \in Digits(HexBase, n)
      /\ padded \in Digits(HexBase, 2 * LENGTH)
      /\ bytes \in Digits(ByteSize, LENGTH) /\ Pairs(bytes, padded, LENGTH)
      /\ reading = Valid(bytes)
  BY <1>3, <1>4, TakenAsHex DEF reading
<1>6. digitsOfBytes(bytes) = padded /\ reading.data = bytes
  <2>1. digitsOfBytes(bytes) = padded
    BY <1>0, <1>5, HexAgain
  <2> QED
    BY <1>5, <2>1, ReadingFacts
<1> HIDE DEF digits
<1>9. LowerCased(text) = Text(TRUE, Lower(digits))
  BY <1>2 DEF LowerCased, digits
<1>7. CASE n = L
  <2>1. padded = digits
    BY <1>0, <1>5, <1>7, PaddedFacts
  <2>2. LowerCased(text) = Text(TRUE, bytesToHex(reading.data))
    BY <1>6, <1>9, <2>1 DEF bytesToHex
  <2> QED
    BY <1>3, <2>2 DEF toStringLong, toStringLongWithoutPrefix, reading
<1>8. CASE isSpecial(reading.data) /\ n = 1
  <2>1. digits = <<digits[1]>>
    BY <1>0, <1>5, <1>8 DEF Digits
  <2>2. padded[L] = digits[1]
    <3>1. \A i \in 1 .. 1 : padded[(L - 1) + i] = digits[i]
      BY <1>0, <1>5, <1>8, PaddedFacts
    <3> HIDE DEF padded
    <3> QED
      BY <1>0, <3>1
  <2>3. LowerCased(text) = Text(TRUE, <<bytesToHex(reading.data)[L]>>)
    <3>1. Lower(digits) = Lower(<<digitsOfBytes(reading.data)[L]>>)
      BY <1>6, <2>1, <2>2
    <3>2. reading.data \in Digits(ByteSize, LENGTH)
      BY <1>5, <1>6
    <3> QED
      BY <1>9, <3>1, <3>2, LowerLast
  <2>4. LowerCased(text) = toString(reading.data)
    BY <1>8, <2>3 DEF toString, toStringWithoutPrefix
  <2> QED
    BY <1>3, <2>4 DEF reading
<1> QED
  BY <1>3, <1>7, <1>8 DEF reading

LEMMA fromHexStringFacts ==
  ASSUME NEW n \in Nat, NEW text, text.chars \in Digits(Letters + 2, n), IsValid(fromHexString(text))
  PROVE  LET digits == DigitsIn(text.chars)
         IN  \E h \in Nat : /\ n = 2 * h /\ digits \in Digits(HexBase, 2 * h)
                            /\ fromHexString(text) = Valid(bytesOfDigits(digits))
                            /\ Len(bytesOfDigits(digits)) = h
<1> DEFINE chars == text.chars
           digits == DigitsIn(chars)
           h == n \div 2
<1>1. Len(chars) = n /\ Letters + 2 \in Nat /\ HexBase \in Nat
  BY Bases DEF Digits
<1>2. ~IsValid(Invalid("too_short")) /\ ~IsValid(Invalid("invalid_length")) /\ ~IsValid(Invalid("invalid_hex_chars"))
  BY DEF IsValid, Invalid
<1>3. fromHexString(text) =
        CASE n = 0 -> Invalid("too_short")
          [] n % 2 # 0 -> Invalid("invalid_length")
          [] n # 0 /\ n % 2 = 0 -> IF IsHex(chars) THEN Valid(hexToBytes(chars)) ELSE Invalid("invalid_hex_chars")
  BY <1>1 DEF fromHexString
<1>4. n % 2 = 0
  <2> SUFFICES ASSUME n % 2 # 0 PROVE FALSE
    OBVIOUS
  <2>1. n # 0
    OBVIOUS
  <2>2. fromHexString(text) = Invalid("invalid_length")
    BY <1>3, <2>1
  <2> QED
    BY <1>2, <2>2
<1>5. n # 0
  <2> SUFFICES ASSUME n = 0 PROVE FALSE
    OBVIOUS
  <2>1. fromHexString(text) = Invalid("too_short")
    BY <1>3, <1>4
  <2> QED
    BY <1>2, <2>1
<1>6. IsHex(chars) /\ fromHexString(text) = Valid(bytesOfDigits(digits))
  BY <1>2, <1>3, <1>4, <1>5 DEF hexToBytes
<1>7. h \in Nat /\ n = 2 * h
  BY <1>4
<1>8. digits \in Digits(HexBase, n)
  BY <1>6, HexIsDigits
<1> HIDE DEF h, digits
<1>9. digits \in Digits(HexBase, 2 * h)
  BY <1>7, <1>8
<1>10. bytesOfDigits(digits) \in Digits(ByteSize, h)
  BY <1>7, <1>9, bytesOfDigitsFacts
<1>11. Len(bytesOfDigits(digits)) = h
  BY <1>7, <1>10 DEF Digits
<1> QED
  BY <1>6, <1>7, <1>9, <1>11 DEF digits

LEMMA TypedIsMeant ==
  ASSUME written \in Typed
  PROVE  TypedAddressesAreMeant
<1> DEFINE chars == written.chars
           digits == DigitsIn(chars)
           strict == fromStringStrict(written)
           relaxed == fromString(written)
           hex == fromHexString(written)
<1>0. /\ LENGTH \in Nat \ {0, 1} /\ HexBase \in Nat \ {0} /\ Letters + 2 \in Nat \ {0}
      /\ LONG_STRING_LENGTH = 2 * LENGTH
      /\ Characters = 0 .. ((Letters + 2) - 1) /\ MaxTyped \in Nat
      /\ LONG_STRING_LENGTH \in 1 .. LONG_STRING_LENGTH
  <2>1. (Letters + 2) - 1 = Letters + 1
    BY Bases
  <2> QED
    BY <2>1, Bases DEF LONG_STRING_LENGTH, Characters
<1>1. PICK n \in 0 .. MaxTyped : chars \in [1 .. n -> Characters]
  BY DEF Typed
<1>2. n \in Nat /\ chars \in Digits(Letters + 2, n)
  BY <1>0, <1>1 DEF Digits
<1>3. written = Text(written.prefix, chars) /\ written.prefix \in BOOLEAN
  BY DEF Typed, Text
<1>4. IsValid(strict) =>
         strict = relaxed /\ LowerCased(written) \in {toString(strict.data), toStringLong(strict.data)}
  BY <1>2, <1>3, StrictIsPrinted
<1>5. ASSUME IsValid(relaxed), ~IsValid(fromBs58String(written))
      PROVE  ValueOf(relaxed.data, ByteSize) = ValueOf(digits, HexBase)
  <2> DEFINE padded == Padded(digits)
             bytes == bytesOfDigits(padded)
  <2>1. /\ n \in 1 .. LONG_STRING_LENGTH /\ digits \in Digits(HexBase, n)
        /\ padded \in Digits(HexBase, 2 * LENGTH)
        /\ bytes \in Digits(ByteSize, LENGTH) /\ Pairs(bytes, padded, LENGTH)
        /\ relaxed = Valid(bytes)
    BY <1>2, <1>5, TakenAsHex
  <2>2. ValueOf(bytes, ByteSize) = ValueOf(padded, HexBase)
    <3> HIDE DEF padded, bytes
    <3> QED BY <1>0, <2>1, PairsValue
  <2>3. ValueOf(padded, HexBase) = ValueOf(digits, HexBase)
    <3> HIDE DEF digits
    <3> QED BY <1>0, <2>1, PaddedFacts
  <2>4. relaxed.data = bytes
    BY <2>1, ReadingFacts
  <2> QED
    BY <2>2, <2>3, <2>4
<1>6. ASSUME IsValid(hex)
      PROVE  /\ HexToString(hex.data).chars = LowerCased(written).chars
             /\ IsValid(relaxed) /\ Len(hex.data) = LENGTH => hex = relaxed
  <2>1. PICK h \in Nat : /\ n = 2 * h /\ digits \in Digits(HexBase, 2 * h)
                         /\ hex = Valid(bytesOfDigits(digits)) /\ Len(bytesOfDigits(digits)) = h
    BY <1>2, <1>6, fromHexStringFacts
  <2>2. hex.data = bytesOfDigits(digits)
    BY <2>1, ReadingFacts
  <2>3. digitsOfBytes(hex.data) = digits
    <3> HIDE DEF digits
    <3> QED BY <2>1, <2>2, HexAgain
  <2>4. ASSUME IsValid(relaxed), Len(hex.data) = LENGTH
        PROVE  hex = relaxed
    <3>1. n = LONG_STRING_LENGTH
      BY <1>0, <2>1, <2>2, <2>4
    <3>2. ~IsValid(fromBs58String(written))
      BY <1>0, <1>2, <3>1, NotBs58
    <3>3. relaxed = Valid(bytesOfDigits(Padded(digits))) /\ digits \in Digits(HexBase, LONG_STRING_LENGTH)
      BY <1>2, <2>4, <3>1, <3>2, TakenAsHex
    <3>4. Padded(digits) = digits
      <4> HIDE DEF digits
      <4> QED BY <1>0, <3>3, PaddedFacts
    <3> QED
      BY <2>1, <3>3, <3>4
  <2>5. HexToString(hex.data).chars = LowerCased(written).chars
    <3>1. HexToString(hex.data).chars = Lower(digitsOfBytes(hex.data))
      BY TextFacts DEF HexToString, bytesToHex
    <3>2. LowerCased(written).chars = Lower(digits)
      BY TextFacts DEF LowerCased
    <3> QED
      BY <2>3, <3>1, <3>2
  <2> QED
    BY <2>4, <2>5
<1> QED
  BY <1>4, <1>5, <1>6 DEF TypedAddressesAreMeant

-----------------------------------------------------------------------------
(* What is going around is a typed text, or one of the forms of the address *)
(* that was meant.                                                         *)
AddressInv ==
    \/ meant = NoAddress /\ written \in Typed
    \/ /\ meant \in Addresses /\ written \in Printed(meant)
       /\ IsValid(addressRead) => addressRead.data = meant

\* An address in any form is read as itself by fromString, and by fromStringStrict if it begins
\* with "0x"; a typed text that is taken has the value of its digits, of either case.
THEOREM AddressesAreReadAsWrittenHolds == AddressSpec => []AddressesAreReadAsWritten
<1>1. AddressInit => AddressInv
  BY ReadingFacts DEF AddressInit, AddressInv
<1>2. AddressInv /\ [AddressNext]_addressVars => AddressInv'
  <2> SUFFICES ASSUME AddressInv, [AddressNext]_addressVars PROVE AddressInv'
    OBVIOUS
  <2>1. CASE ReadAddress
    <3>1. CASE meant = NoAddress /\ written \in Typed
      BY <2>1, <3>1 DEF ReadAddress, AddressInv
    <3>2. CASE meant \in Addresses /\ written \in Printed(meant)
      <4>1. /\ fromString(written) = Valid(meant) /\ written.prefix \in BOOLEAN
            /\ written.prefix => fromStringStrict(written) = Valid(meant)
        BY <3>2, PrintedIsRead
      <4>2. ~written.prefix => ~IsValid(fromStringStrict(written))
        <5> SUFFICES ASSUME ~written.prefix PROVE ~IsValid(fromStringStrict(written))
          OBVIOUS
        <5>1. fromStringStrict(written) = Invalid("leading_zero_x_required")
          BY DEF fromStringStrict
        <5> QED
          BY <5>1, ReadingFacts
      <4>3. IsValid(addressRead') => addressRead'.data = meant
        <5>1. addressRead' = fromString(written) \/ addressRead' = fromStringStrict(written)
          BY <2>1 DEF ReadAddress
        <5>2. addressRead' = Valid(meant) \/ ~IsValid(addressRead')
          BY <4>1, <4>2, <5>1
        <5> QED
          BY <5>2, ReadingFacts
      <4>4. UNCHANGED <<meant, written>>
        BY <2>1 DEF ReadAddress
      <4>5. IsValid(addressRead)' => addressRead'.data = meant
        BY <4>3 DEF IsValid
      <4> QED
        BY <3>2, <4>4, <4>5 DEF AddressInv
    <3> QED
      BY <3>1, <3>2 DEF AddressInv
  <2>2. CASE PassOn
    <3>1. /\ meant \in Addresses /\ addressRead.data = meant
      BY <2>2 DEF PassOn, AddressInv
    <3>2. written' \in Printed(meant) /\ meant' = meant /\ addressRead' = NotRead
      BY <2>2, <3>1 DEF PassOn
    <3>3. ~IsValid(addressRead')
      BY <3>2, ReadingFacts
    <3>4. ~IsValid(addressRead)'
      BY <3>3 DEF IsValid
    <3>5. Printed(meant') = Printed(meant)
      BY <3>2
    <3> QED
      BY <3>1, <3>2, <3>4, <3>5 DEF AddressInv
  <2>3. CASE UNCHANGED addressVars
    BY <2>3 DEF addressVars, AddressInv
  <2> QED
    BY <2>1, <2>2, <2>3 DEF AddressNext
<1>3. AddressInv => AddressesAreReadAsWritten
  <2> SUFFICES ASSUME AddressInv PROVE PrintedAddressesSurvive /\ TypedAddressesAreMeant
    BY DEF AddressesAreReadAsWritten
  <2>1. CASE meant = NoAddress /\ written \in Typed
    BY <2>1, TypedIsMeant DEF PrintedAddressesSurvive
  <2>2. CASE meant \in Addresses /\ written \in Printed(meant)
    <3>1. meant # NoAddress
      <4>1. LENGTH \in Nat \ {0}
        BY Bases
      <4> QED
        BY <2>2, <4>1 DEF Addresses, NoAddress
    <3>2. /\ fromString(written) = Valid(meant) /\ written.prefix \in BOOLEAN
          /\ written.prefix => fromStringStrict(written) = Valid(meant)
      BY <2>2, PrintedIsRead
    <3> QED
      BY <3>1, <3>2, ReadingFacts DEF PrintedAddressesSurvive, TypedAddressesAreMeant
  <2> QED
    BY <2>1, <2>2 DEF AddressInv
<1> QED
  BY <1>1, <1>2, <1>3, PTL DEF AddressSpec
=============================================================================
