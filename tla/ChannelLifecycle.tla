--------------------------- MODULE ChannelLifecycle ---------------------------
(***************************************************************************)
(* What a unidirectional channel promises its two parties                  *)
(* (doc/Contract.md, "No Channel -> Open -> Settling -> Settled"), without *)
(* blocks, balances of the contract, ownership or pausing.                 *)
(*                                                                         *)
(* A sender puts money in escrow for one receiver.  The escrow ends in one *)
(* of two ways: it is split according to a promise the sender signed, or   *)
(* it returns whole to the sender, and that only after the sender          *)
(* announced it and the announcement expired.                              *)
(***************************************************************************)
EXTENDS Integers

CONSTANTS Id, Account, Nobody, Promise, Endowment

VARIABLES
  phase,      \* "none", "open", "settling" or "expired", for each channel
  parties,    \* sender and receiver of each channel
  escrow,     \* money held for each channel
  purse,      \* money of each account
  promised    \* promises signed so far

vars == <<phase, parties, escrow, purse, promised>>

Init ==
  /\ phase = [id \in Id |-> "none"]
  /\ parties = [id \in Id |-> [sender |-> Nobody, receiver |-> Nobody]]
  /\ escrow = [id \in Id |-> 0]
  /\ purse = Endowment
  /\ promised = {}

Funds(account, amount) ==
  /\ amount \in 1 .. purse[account]
  /\ purse' = [purse EXCEPT ![account] = @ - amount]

Open(id, sender, receiver, amount) ==
  /\ phase[id] = "none"
  /\ Funds(sender, amount)
  /\ phase' = [phase EXCEPT ![id] = "open"]
  /\ parties' = [parties EXCEPT ![id] = [sender |-> sender, receiver |-> receiver]]
  /\ escrow' = [escrow EXCEPT ![id] = amount]
  /\ UNCHANGED promised

TopUp(id, amount) ==
  /\ phase[id] = "open"
  /\ Funds(parties[id].sender, amount)
  /\ escrow' = [escrow EXCEPT ![id] = @ + amount]
  /\ UNCHANGED <<phase, parties, promised>>

Vow(sender, id, amount) ==
  /\ promised' = promised \cup {[signer |-> sender, id |-> id, amount |-> amount]}
  /\ UNCHANGED <<phase, parties, escrow, purse>>

Announce(id) ==
  /\ phase[id] = "open"
  /\ phase' = [phase EXCEPT ![id] = "settling"]
  /\ UNCHANGED <<parties, escrow, purse, promised>>

\* One block may end several settling periods.
Expire(ids) ==
  /\ ids # {}
  /\ \A id \in ids : phase[id] = "settling"
  /\ phase' = [id \in Id |-> IF id \in ids THEN "expired" ELSE phase[id]]
  /\ UNCHANGED <<parties, escrow, purse, promised>>

\* The escrow leaves the channel: share to the receiver, the rest back.
Divide(id, share) ==
  LET sender == parties[id].sender
      receiver == parties[id].receiver
  IN
  /\ phase' = [phase EXCEPT ![id] = "none"]
  /\ parties' = [parties EXCEPT ![id] = [sender |-> Nobody, receiver |-> Nobody]]
  /\ escrow' = [escrow EXCEPT ![id] = 0]
  /\ purse' = [[purse EXCEPT ![receiver] = @ + share]
                      EXCEPT ![sender] = @ + (escrow[id] - share)]
  /\ UNCHANGED promised

Redeem(id, amount) ==
  /\ phase[id] # "none"
  /\ [signer |-> parties[id].sender, id |-> id, amount |-> amount] \in promised
  /\ Divide(id, IF amount < escrow[id] THEN amount ELSE escrow[id])

Refund(id) ==
  /\ phase[id] = "expired"
  /\ Divide(id, 0)

Next ==
  \/ \E id \in Id, sender, receiver \in Account :
       \E amount \in 1 .. purse[sender] : Open(id, sender, receiver, amount)
  \/ \E id \in Id :
       \/ /\ phase[id] = "open"
          /\ \E amount \in 1 .. purse[parties[id].sender] : TopUp(id, amount)
       \/ Announce(id)
       \/ \E amount \in Promise : Redeem(id, amount)
       \/ Refund(id)
  \/ \E sender \in Account, id \in Id, amount \in Promise : Vow(sender, id, amount)
  \/ \E ids \in SUBSET Id : Expire(ids)

Spec == Init /\ [][Next]_vars
=============================================================================
