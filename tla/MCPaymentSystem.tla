--------------------------- MODULE MCPaymentSystem ----------------------------
(***************************************************************************)
(* PaymentSystem on small instances: the purchases of a scenario with      *)
(* their prices, and at most one deposit, one closing and one claim.       *)
(***************************************************************************)
EXTENDS PaymentSystem, MCChannelStore, TLC

CONSTANTS p1, p2, p3, p4, d1, s1, r1, c1, c2, c3, o1

\* Against a minimum deposit of 900 every total has two digits, so the text
\* order and the order of numbers agree.
Tens == [p \in Purchase \cup Opening |-> CASE p = p1 -> 10 [] p = p2 -> 20
                              [] p = p3 -> 30 [] p = p4 -> 10
                              [] OTHER -> 90]
\* The opening makes a channel of 90, which has room for one purchase.
Tight == [p \in Purchase \cup Opening |-> IF p \in Opening THEN 9 ELSE 48]
\* The total gains a digit with the second payment.
Nines == [p \in Purchase \cup Opening |-> 9]

Extras == [t \in Deposit |-> 10]
Rich == [account \in Account |-> 9000]

\* Channel ids are interchangeable.
Ids == Permutations(Id)
=============================================================================
