------------------------- MODULE MCTokenUnidirectional -------------------------
(* TokenUnidirectional on small sets of channels, accounts and tokens.      *)
EXTENDS TokenUnidirectional

CONSTANTS alice, bob, t1

TwoOfAlice == [token \in Token |-> [account \in Account |->
                 IF token = t1 /\ account = alice THEN 2 ELSE 0]]
=============================================================================
