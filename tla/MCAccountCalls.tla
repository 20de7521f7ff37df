--------------------------- MODULE MCAccountCalls ---------------------------
(* What concerns an account: the memoized reads and the calls that depend on *)
(* an account's keys, for two callers each; the calls of the name service;   *)
(* addresses as text.  The parts share no state, so what one does while      *)
(* another is under way adds nothing: a behaviour is of one part.            *)
EXTENDS MemoizedReads, AccountKeys, AnsNames, AddressText, TLC

MCReads == {fetchAbi("N1"), getModule("N2"), getKeylessConfig("N1")}

MCMonthDays == <<2, 3, 2>>

Deploys == {"MAINNET", "DEVNET"}
SomeNames == {<<"dom">>, <<"sub", "dom">>, <<"Dom">>}
MCAsked ==
    {[Ask("registerName", "MAINNET", name) EXCEPT !.policy = p, !.years = y] :
       name \in {<<"dom">>, <<"dom", "">>, <<"sub", "dom", "apt">>, <<"sub", "dom", "dom">>,
                 <<"sub", "Dom">>, <<"">>},
       p \in {"domain", "subdomain:follow-domain"}, y \in {1, 2}}
    \cup {[Ask("registerName", "MAINNET", <<"sub", "dom", "apt">>)
             EXCEPT !.policy = "subdomain:independent", !.expirationDate = date] :
            date \in {5, 6, 7, 11}}
    \cup {[Ask("renewDomain", "MAINNET", name) EXCEPT !.years = y] : name \in SomeNames, y \in {1, 2}}
    \cup {Ask(kind, n, name) :
            kind \in {"setPrimaryName", "setTargetAddress"} \cup Views, n \in Deploys,
            name \in SomeNames}
    \cup {Ask(kind, n, <<>>) :
            kind \in {"setPrimaryName", "getPrimaryName"} \cup Lists, n \in Deploys}

-----------------------------------------------------------------------------
VARIABLE part   \* which part the behaviour is of

NoNames ==
    AnsInit /\ names = [domain |-> Undefined, subdomain |-> Undefined, primary |-> <<>>]
NoText == AddressInit /\ written = Text(FALSE, <<>>)

Start ==
    /\ MemoInit /\ KeysInit
    /\ \/ part \in {"reads", "keys"} /\ NoNames /\ NoText
       \/ part = "names" /\ AnsInit /\ NoText
       \/ part = "text" /\ NoNames /\ AddressInit

Step ==
    /\ \/ part = "reads" /\ MemoNext /\ UNCHANGED <<keysVars, ansVars, addressVars>>
       \/ part = "keys" /\ KeysNext /\ UNCHANGED <<memoVars, ansVars, addressVars>>
       \/ part = "names" /\ AnsNext /\ UNCHANGED <<memoVars, keysVars, addressVars>>
       \/ part = "text" /\ AddressNext /\ UNCHANGED <<memoVars, keysVars, ansVars>>
       \/ part = "text" /\ addressRead # NotRead
          /\ UNCHANGED <<memoVars, keysVars, ansVars, addressVars>>
    /\ UNCHANGED part

Behaviour == Start /\ [][Step]_<<memoVars, keysVars, ansVars, addressVars, part>>

\* Callers are alike, and so are private keys.
Alike == Permutations(Callers) \cup Permutations(Users) \cup Permutations(Keys)
=============================================================================
