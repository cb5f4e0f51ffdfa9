------------------------ MODULE LegacyTokenUnidirectional ------------------------
(***************************************************************************)
(* The token payment-channel contract as it was before it could be         *)
(* upgraded                                                                *)
(*   packages/contracts/contracts/TokenUnidirectional.sol                  *)
(* It has no owner and no pause, takes values and periods of nothing and   *)
(* the receiver 0, and pays before it deletes: the tokens are those of     *)
(* TestToken, which call nobody back.                                      *)
(***************************************************************************)
EXTENDS TestToken

CONSTANTS Id, Zero, Value, Period, Promise, MaxUint, MaxBlock

VARIABLES channels, number, signed

contract == <<channels, number, signed>>
vars == <<funds, roles, contract>>

Deleted == [sender |-> Zero, receiver |-> Zero, value |-> 0,
            settlingPeriod |-> 0, settlingUntil |-> 0, tokenContract |-> Zero]

Init ==
  /\ TokenInit
  /\ channels = [id \in Id |-> Deleted]
  /\ number = 1
  /\ signed = {}

isAbsent(id) == channels[id].sender = Zero
isPresent(id) == ~isAbsent(id)
isSettling(id) == channels[id].settlingUntil # 0
isOpen(id) == isPresent(id) /\ ~isSettling(id)

canDeposit(id, origin) == isOpen(id) /\ channels[id].sender = origin
canStartSettling(id, origin) == isOpen(id) /\ channels[id].sender = origin
canSettle(id) == isSettling(id) /\ number >= channels[id].settlingUntil

\* The token is one of the things signed.
paymentDigest(signer, id, amount, token) ==
  [signer |-> signer, id |-> id, amount |-> amount, token |-> token]
canClaim(id, payment, origin) ==
  LET channel == channels[id] IN
  /\ channel.receiver = origin
  /\ paymentDigest(channel.sender, id, payment, channel.tokenContract) \in signed

open(caller, id, receiver, settlingPeriod, token, value) ==
  /\ isAbsent(id)
  /\ CanPull(token, caller, value)
  /\ Pull(token, caller, value)
  /\ channels' = [channels EXCEPT ![id] =
       [sender |-> caller, receiver |-> receiver, value |-> value,
        settlingPeriod |-> settlingPeriod, settlingUntil |-> 0,
        tokenContract |-> token]]
  /\ UNCHANGED <<roles, number, signed>>

deposit(caller, id, value) ==
  /\ canDeposit(id, caller)
  /\ CanPull(channels[id].tokenContract, caller, value)
  /\ Pull(channels[id].tokenContract, caller, value)
  /\ channels' = [channels EXCEPT ![id].value = @ + value]
  /\ UNCHANGED <<roles, number, signed>>

startSettling(caller, id) ==
  /\ canStartSettling(id, caller)
  /\ number + channels[id].settlingPeriod <= MaxUint
  /\ channels' = [channels EXCEPT ![id].settlingUntil =
                                    number + channels[id].settlingPeriod]
  /\ UNCHANGED <<funds, roles, number, signed>>

\* "delete channels[channelId]", after the tokens have moved.
Delete(id) ==
  /\ channels' = [channels EXCEPT ![id] = Deleted]
  /\ UNCHANGED <<allowance, roles, number, signed>>

settle(id) ==
  LET channel == channels[id] IN
  /\ canSettle(id)
  /\ CanPush(channel.tokenContract, channel.value)
  /\ held' = [held EXCEPT ![channel.tokenContract] =
                            Push(channel.sender, channel.value, @)]
  /\ Delete(id)

claim(caller, id, payment) ==
  LET channel == channels[id]
      share == IF payment >= channel.value THEN channel.value ELSE payment
  IN
  /\ canClaim(id, payment, caller)
  /\ CanPush(channel.tokenContract, channel.value)
  /\ held' = [held EXCEPT ![channel.tokenContract] =
                Push(channel.sender, channel.value - share,
                     Push(channel.receiver, share, @))]
  /\ Delete(id)

\* Outside the contract.
Mine == /\ number < MaxBlock
        /\ number' = number + 1
        /\ UNCHANGED <<funds, roles, channels, signed>>

TokenCalls ==
  /\ \E caller \in Account, token \in Token :
       \/ \E amount \in Value : \/ approve(caller, token, amount)
                                \/ \E to \in Holder : mint(caller, token, to, amount)
       \/ finishMinting(caller, token)
       \/ \E account \in Account : addMinter(caller, token, account)
       \/ renounceMinter(caller, token)
  /\ UNCHANGED contract

Next ==
  \/ TokenCalls
  \/ \E caller \in Account, id \in Id :
       \/ \E receiver \in Account \cup {Zero}, settlingPeriod \in Period,
             token \in Token, value \in Value :
               open(caller, id, receiver, settlingPeriod, token, value)
       \/ \E value \in Value : deposit(caller, id, value)
       \/ startSettling(caller, id)
       \/ \E payment \in Promise : claim(caller, id, payment)
       \/ \E amount \in Promise, token \in Token :
            /\ signed' = signed \cup {paymentDigest(caller, id, amount, token)}
            /\ UNCHANGED <<funds, roles, channels, number>>
  \/ \E id \in Id : settle(id)
  \/ Mine

Spec == Init /\ [][Next]_vars
=============================================================================
