-------------------------- MODULE LegacyUnidirectional --------------------------
(***************************************************************************)
(* The Ether payment-channel contract as it was before it could be         *)
(* upgraded, kept for the clients and the documentation that know it       *)
(*   packages/contracts/contracts/Unidirectional.sol                       *)
(* It has no owner and no pause, takes deposits of nothing, periods of     *)
(* nothing and the receiver 0, and pays with "transfer", which leaves the  *)
(* payee 2300 gas: a payee that needs more is refused, and with it the     *)
(* close; and as that is too little to call back, paying before deleting   *)
(* is as good as the other order.                                          *)
(***************************************************************************)
EXTENDS Integers

CONSTANTS
  Id, Account, Zero,
  Accepting,     \* accounts that accept Ether within the gas of "transfer"
  Endowment, Value, Period, Promise, MaxUint

VARIABLES channels, number, balance, wallet, signed

vars == <<channels, number, balance, wallet, signed>>

Deleted == [sender |-> Zero, receiver |-> Zero, value |-> 0,
            settlingPeriod |-> 0, settlingUntil |-> 0]

Init ==
  /\ channels = [id \in Id |-> Deleted]
  /\ number = 1
  /\ balance = 0
  /\ wallet = Endowment
  /\ signed = {}

isAbsent(id) == channels[id].sender = Zero
isPresent(id) == ~isAbsent(id)
isSettling(id) == channels[id].settlingUntil # 0
isOpen(id) == isPresent(id) /\ ~isSettling(id)

canDeposit(id, origin) == isOpen(id) /\ channels[id].sender = origin
canStartSettling(id, origin) == isOpen(id) /\ channels[id].sender = origin
canSettle(id) == isSettling(id) /\ number >= channels[id].settlingUntil
canClaim(id, payment, origin) ==
  /\ channels[id].receiver = origin
  /\ [signer |-> channels[id].sender, id |-> id, amount |-> payment] \in signed

open(caller, id, receiver, value, settlingPeriod) ==
  /\ isAbsent(id)
  /\ value <= wallet[caller]
  /\ channels' = [channels EXCEPT ![id] =
                    [sender |-> caller, receiver |-> receiver, value |-> value,
                     settlingPeriod |-> settlingPeriod, settlingUntil |-> 0]]
  /\ wallet' = [wallet EXCEPT ![caller] = @ - value]
  /\ balance' = balance + value
  /\ UNCHANGED <<number, signed>>

deposit(caller, id, value) ==
  /\ canDeposit(id, caller)
  /\ value <= wallet[caller]
  /\ channels' = [channels EXCEPT ![id].value = @ + value]
  /\ wallet' = [wallet EXCEPT ![caller] = @ - value]
  /\ balance' = balance + value
  /\ UNCHANGED <<number, signed>>

startSettling(caller, id) ==
  /\ canStartSettling(id, caller)
  /\ number + channels[id].settlingPeriod <= MaxUint
  /\ channels' = [channels EXCEPT ![id].settlingUntil =
                                    number + channels[id].settlingPeriod]
  /\ UNCHANGED <<number, balance, wallet, signed>>

\* "transfer", to one or two payees, and "delete channels[channelId]".
CanPay(payees, total) == payees \subseteq Accepting /\ total <= balance
Pay(payee, amount, purse) == [purse EXCEPT ![payee] = @ + amount]
Close(id) ==
  /\ balance' = balance - channels[id].value
  /\ channels' = [channels EXCEPT ![id] = Deleted]
  /\ UNCHANGED <<number, signed>>

settle(id) ==
  LET channel == channels[id] IN
  /\ canSettle(id)
  /\ CanPay({channel.sender}, channel.value)
  /\ wallet' = Pay(channel.sender, channel.value, wallet)
  /\ Close(id)

claim(caller, id, payment) ==
  LET channel == channels[id] IN
  /\ canClaim(id, payment, caller)
  /\ \/ /\ payment >= channel.value
        /\ CanPay({channel.receiver}, channel.value)
        /\ wallet' = Pay(channel.receiver, channel.value, wallet)
     \/ /\ payment < channel.value
        /\ CanPay({channel.receiver, channel.sender}, channel.value)
        /\ wallet' = Pay(channel.sender, channel.value - payment,
                         Pay(channel.receiver, payment, wallet))
  /\ Close(id)

\* Outside the contract.
Sign(signer, id, amount) ==
  /\ signed' = signed \cup {[signer |-> signer, id |-> id, amount |-> amount]}
  /\ UNCHANGED <<channels, number, balance, wallet>>

Mine == /\ number < MaxUint
        /\ number' = number + 1
        /\ UNCHANGED <<channels, balance, wallet, signed>>

Next ==
  \/ \E caller \in Account, id \in Id :
       \/ \E receiver \in Account \cup {Zero}, value \in Value, settlingPeriod \in Period :
            open(caller, id, receiver, value, settlingPeriod)
       \/ \E value \in Value : deposit(caller, id, value)
       \/ startSettling(caller, id)
       \/ \E payment \in Promise : claim(caller, id, payment)
       \/ \E amount \in Promise : Sign(caller, id, amount)
  \/ \E id \in Id : settle(id)
  \/ Mine

Spec == Init /\ [][Next]_vars
=============================================================================
