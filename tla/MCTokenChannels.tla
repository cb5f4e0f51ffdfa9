---------------------------- MODULE MCTokenChannels ----------------------------
(* TokenChannels on small instances: a payer with a few tokens, a payee who *)
(* deployed them, and one call of each kind or two.                         *)
EXTENDS TokenChannels, MCWrapperGenerator

CONSTANTS alice, bob

TwoOfAlice == [token \in Token |-> [account \in Account |->
                 IF account = alice THEN 2 ELSE 0]]
=============================================================================
