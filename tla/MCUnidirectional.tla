--------------------------- MODULE MCUnidirectional ---------------------------
(* Unidirectional on small sets of channels, accounts and blocks. *)
EXTENDS Unidirectional

CONSTANTS alice, bob

\* Two channels and deposits come out of the money of one account.
AliceOnly == [account \in Account |-> IF account = alice THEN 3 ELSE 0]
=============================================================================
