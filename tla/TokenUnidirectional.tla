-------------------------- MODULE TokenUnidirectional --------------------------
(***************************************************************************)
(* The token payment-channel contract                                      *)
(*   packages/contracts/contracts/TokenUnidirectionalUpgradeable.sol       *)
(* A channel lives as one in Ether does (module Unidirectional), but its   *)
(* money is pulled from the allowance its sender gave the contract, and    *)
(* the signed digest names the token.  A transaction is one atomic action; *)
(* it reverts unless its "may" operator holds.                             *)
(***************************************************************************)
EXTENDS TestToken

CONSTANTS
  Id,            \* channel ids
  Zero,          \* address(0)
  Value,         \* the value arguments of open and deposit, amounts minted
  Period,        \* settlingPeriod argument of open
  Promise,       \* amounts that are ever signed
  MaxUint,       \* the largest uint256
  MaxBlock       \* bounds the block number

ASSUME ZeroAssumption == Zero \notin Account \cup {This} \cup Token
ASSUME RangeAssumption == /\ MaxUint \in Nat \ {0}
                          /\ MaxBlock \in 0 .. MaxUint
                          /\ Value \subseteq 0 .. MaxUint
                          /\ Period \subseteq 0 .. MaxUint
                          /\ Promise \subseteq 0 .. MaxUint

VARIABLES
  channels,      \* mapping(bytes32 => PaymentChannel)
  number,        \* block.number
  paused,        \* PausableUpgradeable
  owner,         \* OwnableUpgradeable
  signed,        \* promises signed so far
  announced      \* history: block at which startSettling was mined, or 0

tokens == <<funds, roles>>
contract == <<channels, number, paused, owner, signed, announced>>
vars == <<tokens, contract>>

Address == Account \cup {Zero}

PaymentChannel == [sender : Address, receiver : Address, value : Nat,
                   settlingPeriod : Nat, settlingUntil : Nat,
                   tokenContract : Token \cup {Zero}]

Deleted == [sender |-> Zero, receiver |-> Zero, value |-> 0,
            settlingPeriod |-> 0, settlingUntil |-> 0, tokenContract |-> Zero]

PromiseOf == [signer : Account, id : Id, amount : Promise, token : Token]

Init ==
  /\ TokenInit
  /\ channels = [id \in Id |-> Deleted]
  /\ number = 1
  /\ paused = FALSE
  /\ owner = Deployer
  /\ signed = {}
  /\ announced = [id \in Id |-> 0]

-----------------------------------------------------------------------------
(* View functions.  An operator with an underscore is a mutant.             *)

isAbsent(id) == channels[id].sender = Zero
isPresent(id) == ~isAbsent(id)
isSettling(id) == channels[id].settlingUntil # 0
isOpen(id) == isPresent(id) /\ ~isSettling(id)

canDeposit_ByAnyone(id, origin) == isOpen(id)
canDeposit_WhileSettling(id, origin) == isPresent(id) /\ channels[id].sender = origin
canDeposit(id, origin) == isOpen(id) /\ channels[id].sender = origin

canStartSettling(id, origin) == isOpen(id) /\ channels[id].sender = origin

canSettle(id) == isSettling(id) /\ number >= channels[id].settlingUntil

\* The signature is over the id, the amount and the token of the channel.
canClaim_AnyToken(id, payment, origin) ==
  /\ isPresent(id)
  /\ channels[id].receiver = origin
  /\ \E token \in Token : [signer |-> channels[id].sender, id |-> id,
                           amount |-> payment, token |-> token] \in signed
canClaim(id, payment, origin) ==
  /\ isPresent(id)
  /\ channels[id].receiver = origin
  /\ [signer |-> channels[id].sender, id |-> id, amount |-> payment,
      token |-> channels[id].tokenContract] \in signed

-----------------------------------------------------------------------------
(* Transactions. *)

mayOpen(caller, id, receiver, settlingPeriod, token, value) ==
  /\ ~paused
  /\ receiver # Zero /\ token # Zero
  /\ value # 0
  /\ settlingPeriod # 0
  /\ isAbsent(id)
  /\ CanPull(token, caller, value)

open(caller, id, receiver, settlingPeriod, token, value) ==
  /\ mayOpen(caller, id, receiver, settlingPeriod, token, value)
  /\ Pull(token, caller, value)
  /\ channels' = [channels EXCEPT ![id] =
       [sender |-> caller, receiver |-> receiver, value |-> value,
        settlingPeriod |-> settlingPeriod, settlingUntil |-> 0,
        tokenContract |-> token]]
  /\ UNCHANGED <<roles, number, paused, owner, signed, announced>>

mayDeposit(caller, id, value) ==
  /\ ~paused
  /\ value # 0
  /\ canDeposit(id, caller)
  /\ CanPull(channels[id].tokenContract, caller, value)

deposit(caller, id, value) ==
  /\ mayDeposit(caller, id, value)
  /\ Pull(channels[id].tokenContract, caller, value)
  /\ channels' = [channels EXCEPT ![id].value = @ + value]
  /\ UNCHANGED <<roles, number, paused, owner, signed, announced>>

mayStartSettling(caller, id) ==
  /\ ~paused
  /\ canStartSettling(id, caller)
  /\ number + channels[id].settlingPeriod <= MaxUint

startSettling(caller, id) ==
  /\ mayStartSettling(caller, id)
  /\ channels' = [channels EXCEPT ![id].settlingUntil =
                                    number + channels[id].settlingPeriod]
  /\ announced' = [announced EXCEPT ![id] = number]
  /\ UNCHANGED <<tokens, number, paused, owner, signed>>

\* "delete channels[channelId]"; the history of the channel goes with it.
Delete_SenderOnly(id) ==
  /\ channels' = [channels EXCEPT ![id].sender = Zero]
  /\ announced' = [announced EXCEPT ![id] = 0]
  /\ UNCHANGED <<allowance, roles, number, paused, owner, signed>>
Delete(id) ==
  /\ channels' = [channels EXCEPT ![id] = Deleted]
  /\ announced' = [announced EXCEPT ![id] = 0]
  /\ UNCHANGED <<allowance, roles, number, paused, owner, signed>>

maySettle(id) ==
  /\ ~paused
  /\ isPresent(id)
  /\ canSettle(id)
  /\ CanPush(channels[id].tokenContract, channels[id].value)

settle_KeepsChannel(id) ==
  LET channel == channels[id] IN
  /\ maySettle(id)
  /\ held' = [held EXCEPT ![channel.tokenContract] =
                            Push(channel.sender, channel.value, @)]
  /\ UNCHANGED <<allowance, roles, contract>>
settle(id) ==
  LET channel == channels[id] IN
  /\ maySettle(id)
  /\ Delete(id)
  /\ held' = [held EXCEPT ![channel.tokenContract] =
                            Push(channel.sender, channel.value, @)]

mayClaim(caller, id, payment) ==
  /\ ~paused
  /\ canClaim(id, payment, caller)
  /\ CanPush(channels[id].tokenContract, channels[id].value)

claim(caller, id, payment) ==
  LET channel == channels[id]
      share == IF payment >= channel.value THEN channel.value ELSE payment
  IN
  /\ mayClaim(caller, id, payment)
  /\ Delete(id)
  /\ held' = [held EXCEPT ![channel.tokenContract] =
                Push(channel.sender, channel.value - share,
                     Push(channel.receiver, share, @))]

pause(caller) ==
  /\ caller = owner
  /\ ~paused
  /\ paused' = TRUE
  /\ UNCHANGED <<tokens, channels, number, owner, signed, announced>>

unpause(caller) ==
  /\ caller = owner
  /\ paused
  /\ paused' = FALSE
  /\ UNCHANGED <<tokens, channels, number, owner, signed, announced>>

\* ChainManager.sign over paymentDigest(id, amount, token).
Sign(signer, id, amount, token) ==
  /\ signed' = signed \cup {[signer |-> signer, id |-> id,
                             amount |-> amount, token |-> token]}
  /\ UNCHANGED <<tokens, channels, number, paused, owner, announced>>

Mine ==
  /\ number < MaxBlock
  /\ number' = number + 1
  /\ UNCHANGED <<tokens, channels, paused, owner, signed, announced>>

-----------------------------------------------------------------------------
Approves == \E caller \in Account, token \in Token, amount \in Value :
              approve(caller, token, amount) /\ UNCHANGED contract
Mints ==
  /\ \E caller \in Account, token \in Token :
       \/ \E to \in Holder, amount \in Value : mint(caller, token, to, amount)
       \/ finishMinting(caller, token)
       \/ \E account \in Account : addMinter(caller, token, account)
       \/ renounceMinter(caller, token)
  /\ UNCHANGED contract
Opens == \E caller \in Account, id \in Id, receiver \in Address, token \in Token \cup {Zero},
            settlingPeriod \in Period, value \in Value :
              open(caller, id, receiver, settlingPeriod, token, value)
Deposits == \E caller \in Account, id \in Id, value \in Value :
              deposit(caller, id, value)
StartsSettling == \E caller \in Account, id \in Id : startSettling(caller, id)
Settles == \E id \in Id : settle(id)
Claims == \E caller \in Account, id \in Id, payment \in Promise :
            claim(caller, id, payment)
Pauses == \E caller \in Account : pause(caller) \/ unpause(caller)
Signs == \E signer \in Account, id \in Id, amount \in Promise, token \in Token :
           Sign(signer, id, amount, token)

Next == \/ Approves
        \/ Mints
        \/ Opens
        \/ Deposits
        \/ StartsSettling
        \/ Settles
        \/ Claims
        \/ Pauses
        \/ Signs
        \/ Mine

Spec == Init /\ [][Next]_vars
-----------------------------------------------------------------------------
(* Properties. *)

(* Every variable has its type. *)
TypeOK ==
  /\ TokenTypeOK
  /\ channels \in [Id -> PaymentChannel]
  /\ number \in Nat
  /\ paused \in BOOLEAN
  /\ owner \in Address
  /\ signed \subseteq PromiseOf
  /\ announced \in [Id -> Nat]

(* A record is either wholly deleted or a funded channel in a token, with a *)
(* receiver and a period, and its deadline is one settling period after the *)
(* block of the announcement.                                               *)
ChannelWellFormed(id) ==
  LET channel == channels[id] IN
  /\ isAbsent(id) => channel = Deleted /\ announced[id] = 0
  /\ isPresent(id) => /\ channel.receiver # Zero
                      /\ channel.value > 0
                      /\ channel.settlingPeriod > 0
                      /\ channel.tokenContract # Zero
  /\ isSettling(id) => /\ announced[id] \in 1 .. number
                       /\ channel.settlingUntil =
                            announced[id] + channel.settlingPeriod
  /\ isOpen(id) => announced[id] = 0

WellFormed == number > 0 /\ \A id \in Id : ChannelWellFormed(id)

(* What channel id holds of a token, now and in the next state.             *)
Stake(id, token) ==
  IF channels[id].tokenContract = token THEN channels[id].value ELSE 0

(* The tokens of an account leave it only into a channel it is the sender   *)
(* of, within the allowance it gave for that token, and every token taken   *)
(* counts as value of that channel: open and deposit never take one party's *)
(* tokens for another's channel, nor tokens of another contract.            *)
TakenInto(id, account, token) ==
  LET taken == held[token][account] - held'[token][account] IN
  /\ channels'[id].sender = account
  /\ channels'[id].tokenContract = token
  /\ channels'[id].value = Stake(id, token) + taken
  /\ allowance'[token][account] = allowance[token][account] - taken

PullsAreConsented ==
  [][\A token \in Token, account \in Account :
       held'[token][account] < held[token][account]
         => \E id \in Id : TakenInto(id, account, token)]_vars

(* Each step moves at most one channel, and the contract's holding of each  *)
(* token changes by exactly what the channel's value in that token does, so *)
(* no channel is paid from another's tokens; only minting to the contract's *)
(* own address may add to it besides.                                       *)
BalancedStep ==
  \/ /\ UNCHANGED channels
     /\ \A token \in Token : held'[token][This] >= held[token][This]
  \/ \E id \in Id :
       /\ \A other \in Id \ {id} : channels'[other] = channels[other]
       /\ \A token \in Token :
            held'[token][This] - held[token][This]
              = Stake(id, token)' - Stake(id, token)

StepsBalance == [][BalancedStep]_vars

(* Ends(id): this step closes the channel. Gain(t, a): what it pays a in t. *)
Ends(id) == isPresent(id) /\ isAbsent(id)'
Gain(token, account) == held'[token][account] - held[token][account]

Splits(id, amount) ==
  LET channel == channels[id]
      share == IF amount < channel.value THEN amount ELSE channel.value
  IN \A account \in Account, token \in Token :
       Gain(token, account) =
         (IF account = channel.receiver /\ token = channel.tokenContract
          THEN share ELSE 0)
           + (IF account = channel.sender /\ token = channel.tokenContract
              THEN channel.value - share ELSE 0)

PeriodElapsed(id) ==
  /\ announced[id] # 0
  /\ number >= announced[id] + channels[id].settlingPeriod

FairEnd(id) ==
  Ends(id) =>
    \/ PeriodElapsed(id) /\ Splits(id, 0)
    \/ \E promise \in signed : /\ promise.signer = channels[id].sender
                               /\ promise.id = id
                               /\ promise.token = channels[id].tokenContract
                               /\ Splits(id, promise.amount)

(* However a channel ends, its whole value is paid out in its own token,    *)
(* according to a promise its sender signed for this id and this token, or  *)
(* back to the sender no earlier than one period after the announcement.    *)
EndsFairly == [][\A id \in Id : FairEnd(id)]_vars

SameTerms(id) ==
  LET old == channels[id]
      new == channels'[id]
  IN isPresent(id) /\ isPresent(id)' =>
       /\ new.sender = old.sender
       /\ new.receiver = old.receiver
       /\ new.settlingPeriod = old.settlingPeriod
       /\ new.tokenContract = old.tokenContract
       /\ new.value >= old.value
       /\ isSettling(id) => new = old

(* While a channel lives its parties, period and token are fixed, its value *)
(* never shrinks, and from the announcement on nothing of it changes.       *)
TermsHold == [][\A id \in Id : SameTerms(id)]_vars

(* The upgradeable token contract does nothing to channels and tokens that  *)
(* the contract it replaced (TokenUnidirectional.sol) would not have done.  *)
Legacy == INSTANCE LegacyTokenUnidirectional

ImplementsLegacy == Legacy!Spec
=============================================================================
