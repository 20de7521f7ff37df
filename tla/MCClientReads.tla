--------------------------- MODULE MCClientReads ---------------------------
(* ClientReads with four versions of the ledger, pages of one item and two  *)
(* histories: one that loses an item and gains one, one that only gains; and *)
(* BlockFill with pages of three transactions. The two share no variable: a  *)
(* client either reads, or fills one block before any read.                  *)
EXTENDS ClientReads, BlockFill

ManyHistories ==
    {0 :> {1, 2, 3} @@ 1 :> {2, 3, 4} @@ 2 :> {2, 4} @@ 3 :> {2, 4, 5},
     0 :> {} @@ 1 :> {2} @@ 2 :> {1, 2, 3} @@ 3 :> {1, 2, 3}}

NoBlock == blockPc = "block" /\ lastVersion = 0 /\ ~withTransactions
NoRead == pc = "idle" /\ ledger = 0

Start == Init /\ BlockInit

ReadsAndBlocks ==
    /\ Start
    /\ [][\/ Next /\ NoBlock /\ UNCHANGED blockVars
          \/ BlockNext /\ NoRead /\ UNCHANGED vars
          \/ blockPc \in {"returned", "thrown"} /\ UNCHANGED <<vars, blockVars>>]_<<vars, blockVars>>
    /\ WF_vars(Client /\ NoBlock /\ UNCHANGED blockVars)
=============================================================================
