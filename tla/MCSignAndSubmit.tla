--------------------------- MODULE MCSignAndSubmit --------------------------
(***************************************************************************)
(* A behaviour is of calls that wait for proofs (SignAndSubmit) or of the  *)
(* parties of one transaction (Signing); they share no state.              *)
(***************************************************************************)
EXTENDS SignAndSubmit, Signing, TLC

CONSTANTS k1, k2, p
MCKeyIndex == (k1 :> 33) @@ (k2 :> 5) @@ (p :> 2)

(* The parties: two of three keys must sign for Carol, who has the first,  *)
(* which is Alice's, too, and the last, and the other one is keyless;      *)
(* Alice's address has been given to her key and Bob's.                    *)
K1 == Key("Ed25519", 1)
K2 == Key("Secp256k1", 2)
K3 == Key("Secp256k1", 3)
K4 == Key("Keyless", 4)

Alice == fromPrivateKey(K1, Nothing, TRUE)
Bob == fromPrivateKey(K2, Nothing, TRUE)
Carol == MultiKeyAccount(<<K1, K4, K3>>, 2, <<K3, K1>>)
Dave == KeylessAccount(K4, Nothing)
Joint == MultiAuthKeyAccount(Alice.accountAddress, <<K1, K2>>)
MCPeople == {Alice, Bob, Carol, Dave, Joint}

Draft(sender, secondary, withFeePayer) ==
  [sender |-> sender.accountAddress, secondary |-> secondary, withFeePayer |-> withFeePayer]
MCDrafts ==
  {Draft(Alice, Nothing, FALSE), Draft(Bob, <<Carol.accountAddress>>, TRUE),
   Draft(Dave, <<Alice.accountAddress, Bob.accountAddress>>, FALSE)}

SessionInit == Init /\ SigningInit
SessionNext ==
  \/ SigningInit /\ Next /\ UNCHANGED signingVars
  \/ Init /\ SigningNext /\ UNCHANGED vars

SessionSpec == SessionInit /\ [][SessionNext]_<<vars, signingVars>> /\ Fairness
=============================================================================
