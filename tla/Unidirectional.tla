---------------------------- MODULE Unidirectional ----------------------------
(***************************************************************************)
(* The Ether payment-channel contract                                      *)
(*   packages/contracts/contracts/UnidirectionalUpgradeable.sol            *)
(* on a chain that mines blocks.  A transaction is one atomic action: the  *)
(* functions that pay are nonReentrant and delete the channel before they  *)
(* transfer, and a revert is an action that is not enabled.                *)
(*                                                                         *)
(* Payment promises are signed off the chain.  A signature binds the       *)
(* contract, the channel id and the amount, nothing else, so a promise is  *)
(* the triple signer, id, amount, and it never expires.                    *)
(***************************************************************************)
EXTENDS Integers, FiniteSets

CONSTANTS
  Id,            \* channel ids (bytes32)
  Account,       \* externally owned accounts and contracts
  Zero,          \* address(0)
  Accepting,     \* accounts that do not revert when they are sent Ether
  Frugal,        \* those that accept it within the 2300 gas of "transfer"
  Deployer,      \* the initial owner
  Heir,          \* accounts that ownership may be offered to
  Endowment,     \* Ether each account starts with
  Value,         \* msg.value of open and deposit
  Period,        \* settlingPeriod argument of open
  Promise,       \* amounts that are ever signed
  MaxUint        \* the largest uint256; bounds the block number

ASSUME AddressAssumption == /\ Zero \notin Account
                            /\ Accepting \subseteq Account
                            /\ Frugal \subseteq Account
                            /\ Heir \subseteq Account
                            /\ Deployer \in Account
ASSUME NumberAssumption == /\ MaxUint \in Nat \ {0}
                           /\ Value \subseteq 0 .. MaxUint
                           /\ Period \subseteq 0 .. MaxUint
                           /\ Promise \subseteq 0 .. MaxUint
                           /\ Endowment \in [Account -> Nat]

VARIABLES
  channels,      \* mapping(bytes32 => PaymentChannel)
  number,        \* block.number
  paused,        \* PausableUpgradeable
  owner,         \* OwnableUpgradeable
  pendingOwner,  \* Ownable2StepUpgradeable
  balance,       \* address(this).balance
  wallet,        \* Ether held by each account
  signed,        \* promises signed so far
  announced      \* history: block at which startSettling was mined, or 0

governance == <<paused, owner, pendingOwner>>
money == <<balance, wallet>>
vars == <<channels, number, paused, owner, pendingOwner, balance, wallet,
          signed, announced>>

Address == Account \cup {Zero}

PaymentChannel == [sender : Address, receiver : Address, value : Nat,
                   settlingPeriod : Nat, settlingUntil : Nat]

\* The record that "delete channels[channelId]" leaves behind.
Deleted == [sender |-> Zero, receiver |-> Zero, value |-> 0,
            settlingPeriod |-> 0, settlingUntil |-> 0]

PromiseOf == [signer : Account, id : Id, amount : Promise]

Init ==
  /\ channels = [id \in Id |-> Deleted]
  /\ number = 1
  /\ paused = FALSE
  /\ owner = Deployer
  /\ pendingOwner = Zero
  /\ balance = 0
  /\ wallet = Endowment
  /\ signed = {}
  /\ announced = [id \in Id |-> 0]

-----------------------------------------------------------------------------
(* View functions and modifiers.  An operator with an underscore in its name *)
(* is a mutant: the definition after it as a plausible slip would write it,   *)
(* used only to see which property notices.                                   *)

whenNotPaused == ~paused

isAbsent(id) == channels[id].sender = Zero
isPresent(id) == ~isAbsent(id)
isSettling(id) == channels[id].settlingUntil # 0
isOpen(id) == isPresent(id) /\ ~isSettling(id)

canDeposit_WhileSettling(id, origin) == isPresent(id) /\ channels[id].sender = origin
canDeposit(id, origin) == isOpen(id) /\ channels[id].sender = origin

canStartSettling_Again(id, origin) == isPresent(id) /\ channels[id].sender = origin
canStartSettling(id, origin) == isOpen(id) /\ channels[id].sender = origin

canSettle_AnyTime(id) == isSettling(id)
canSettle_AfterDeadline(id) == isSettling(id) /\ number > channels[id].settlingUntil
canSettle(id) == isSettling(id) /\ number >= channels[id].settlingUntil

canClaim(id, payment, origin, signer) ==
  /\ isPresent(id)
  /\ channels[id].receiver = origin
  /\ channels[id].sender = signer
  /\ [signer |-> signer, id |-> id, amount |-> payment] \in signed

\* _safeTransferETH: the transfers of one transaction, each of which must
\* be accepted by its receiver and covered by the contract's balance.
Pay(payee, amount, purse) == [purse EXCEPT ![payee] = @ + amount]
CanPay(payees, total) == payees \subseteq Accepting /\ total <= balance

\* "delete channels[channelId]"; the history of the channel goes with it.
Delete_SenderOnly(id) ==
  /\ channels' = [channels EXCEPT ![id].sender = Zero]
  /\ announced' = [announced EXCEPT ![id] = 0]
Delete(id) ==
  /\ channels' = [channels EXCEPT ![id] = Deleted]
  /\ announced' = [announced EXCEPT ![id] = 0]

-----------------------------------------------------------------------------
(* Transactions. *)

open(caller, id, receiver, value, settlingPeriod) ==
  /\ whenNotPaused
  /\ receiver # Zero
  /\ value # 0
  /\ settlingPeriod # 0
  /\ isAbsent(id)
  /\ value <= wallet[caller]
  /\ channels' = [channels EXCEPT ![id] =
                    [sender |-> caller, receiver |-> receiver, value |-> value,
                     settlingPeriod |-> settlingPeriod, settlingUntil |-> 0]]
  /\ wallet' = [wallet EXCEPT ![caller] = @ - value]
  /\ balance' = balance + value
  /\ UNCHANGED <<number, governance, signed, announced>>

deposit_Replaces(caller, id, value) ==
  /\ whenNotPaused
  /\ value # 0
  /\ canDeposit(id, caller)
  /\ value <= wallet[caller]
  /\ channels' = [channels EXCEPT ![id].value = value]
  /\ wallet' = [wallet EXCEPT ![caller] = @ - value]
  /\ balance' = balance + value
  /\ UNCHANGED <<number, governance, signed, announced>>

deposit(caller, id, value) ==
  /\ whenNotPaused
  /\ value # 0
  /\ canDeposit(id, caller)
  /\ value <= wallet[caller]
  /\ channels' = [channels EXCEPT ![id].value = @ + value]
  /\ wallet' = [wallet EXCEPT ![caller] = @ - value]
  /\ balance' = balance + value
  /\ UNCHANGED <<number, governance, signed, announced>>

\* Checked arithmetic: the sum that exceeds a uint256 reverts.
startSettling(caller, id) ==
  /\ whenNotPaused
  /\ canStartSettling(id, caller)
  /\ number + channels[id].settlingPeriod <= MaxUint
  /\ channels' = [channels EXCEPT ![id].settlingUntil =
                                      number + channels[id].settlingPeriod]
  /\ announced' = [announced EXCEPT ![id] = number]
  /\ UNCHANGED <<number, governance, money, signed>>

\* Anyone may call settle.
settle(id) ==
  LET channel == channels[id] IN
  /\ whenNotPaused
  /\ isPresent(id)
  /\ canSettle(id)
  /\ CanPay({channel.sender}, channel.value)
  /\ Delete(id)
  /\ wallet' = Pay(channel.sender, channel.value, wallet)
  /\ balance' = balance - channel.value
  /\ UNCHANGED <<number, governance, signed>>

\* A promise above the channel's value pays all of it, in one transfer.
claim(caller, id, payment, signer) ==
  LET channel == channels[id]
      rest == channel.value - payment
  IN
  /\ whenNotPaused
  /\ canClaim(id, payment, caller, signer)
  /\ Delete(id)
  /\ balance' = balance - channel.value
  /\ \/ /\ payment >= channel.value
        /\ CanPay({channel.receiver}, channel.value)
        /\ wallet' = Pay(channel.receiver, channel.value, wallet)
     \/ /\ payment < channel.value
        /\ CanPay({channel.receiver, channel.sender}, channel.value)
        /\ wallet' = Pay(channel.sender, rest,
                         Pay(channel.receiver, payment, wallet))
  /\ UNCHANGED <<number, governance, signed>>

pause(caller) ==
  /\ caller = owner
  /\ ~paused
  /\ paused' = TRUE
  /\ UNCHANGED <<channels, number, owner, pendingOwner, money, signed, announced>>

unpause(caller) ==
  /\ caller = owner
  /\ paused
  /\ paused' = FALSE
  /\ UNCHANGED <<channels, number, owner, pendingOwner, money, signed, announced>>

\* Ownable2Step, inherited: an offer takes effect when it is accepted.
transferOwnership(caller, heir) ==
  /\ caller = owner
  /\ pendingOwner' = heir
  /\ UNCHANGED <<channels, number, paused, owner, money, signed, announced>>

acceptOwnership(caller) ==
  /\ caller = pendingOwner
  /\ owner' = caller
  /\ pendingOwner' = Zero
  /\ UNCHANGED <<channels, number, paused, money, signed, announced>>

\* Inherited too; after it nobody can pause, or end a pause.
renounceOwnership(caller) ==
  /\ caller = owner
  /\ owner' = Zero
  /\ pendingOwner' = Zero
  /\ UNCHANGED <<channels, number, paused, money, signed, announced>>

-----------------------------------------------------------------------------
(* Outside the contract: signatures and blocks. *)

\* ChainManager.sign over paymentDigest(id, amount).
Sign(signer, id, amount) ==
  /\ signed' = signed \cup {[signer |-> signer, id |-> id, amount |-> amount]}
  /\ UNCHANGED <<channels, number, governance, money, announced>>

Mine ==
  /\ number < MaxUint
  /\ number' = number + 1
  /\ UNCHANGED <<channels, governance, money, signed, announced>>

Opens == \E caller \in Account, id \in Id, receiver \in Address,
            value \in Value, settlingPeriod \in Period :
              open(caller, id, receiver, value, settlingPeriod)
Deposits == \E caller \in Account, id \in Id, value \in Value :
              deposit(caller, id, value)
StartsSettling == \E caller \in Account, id \in Id : startSettling(caller, id)
Settles == \E id \in Id : settle(id)
Claims == \E caller \in Account, id \in Id, payment \in Promise,
             signer \in Account : claim(caller, id, payment, signer)
Governs == \E caller \in Account :
             \/ pause(caller)
             \/ unpause(caller)
             \/ \E heir \in Heir : transferOwnership(caller, heir)
             \/ acceptOwnership(caller)
             \/ renounceOwnership(caller)
Signs == \E signer \in Account, id \in Id, amount \in Promise :
             Sign(signer, id, amount)

Next == \/ Opens
        \/ Deposits
        \/ StartsSettling
        \/ Settles
        \/ Claims
        \/ Governs
        \/ Signs
        \/ Mine

Spec == Init /\ [][Next]_vars

(* Blocks keep coming, and a sender who announced settlement keeps calling  *)
(* settle (IohTee.close) until the contract accepts it.                     *)
FairSpec == /\ Spec
            /\ WF_vars(Mine)
            /\ \A id \in Id : WF_vars(settle(id))
-----------------------------------------------------------------------------
(* Properties. *)

(* Every variable has its type. *)
TypeOK ==
  /\ channels \in [Id -> PaymentChannel]
  /\ number \in Nat
  /\ paused \in BOOLEAN
  /\ owner \in Address
  /\ pendingOwner \in Address
  /\ balance \in Nat
  /\ wallet \in [Account -> Nat]
  /\ signed \subseteq PromiseOf
  /\ announced \in [Id -> Nat]

(* A record is either wholly deleted or a funded channel with a receiver    *)
(* and a period, and its deadline is exactly one settling period after the  *)
(* block of the announcement.  isSettling and canSettle read settlingUntil  *)
(* alone, so they are right only while no deadline outlives its channel.    *)
ChannelWellFormed(id) ==
  LET channel == channels[id] IN
  /\ isAbsent(id) => channel = Deleted /\ announced[id] = 0
  /\ isPresent(id) => /\ channel.receiver # Zero
                      /\ channel.value > 0
                      /\ channel.settlingPeriod > 0
  /\ isSettling(id) => /\ announced[id] \in 1 .. number
                       /\ channel.settlingUntil =
                            announced[id] + channel.settlingPeriod
  /\ isOpen(id) => announced[id] = 0

WellFormed == number > 0 /\ \A id \in Id : ChannelWellFormed(id)

(* Ends(id): this step closes the channel. Gain(a): what it pays a.         *)
Ends(id) == isPresent(id) /\ isAbsent(id)'
Gain(account) == wallet'[account] - wallet[account]

\* The accounts gain what a close that owes the receiver "amount" pays.
Splits(id, amount) ==
  LET channel == channels[id]
      share == IF amount < channel.value THEN amount ELSE channel.value
  IN \A account \in Account :
       Gain(account) =
         (IF account = channel.receiver THEN share ELSE 0)
           + (IF account = channel.sender THEN channel.value - share ELSE 0)

PeriodElapsed(id) ==
  /\ announced[id] # 0
  /\ number >= announced[id] + channels[id].settlingPeriod

FairEnd(id) ==
  Ends(id) =>
    \/ PeriodElapsed(id) /\ Splits(id, 0)
    \/ \E promise \in signed : /\ promise.signer = channels[id].sender
                               /\ promise.id = id
                               /\ Splits(id, promise.amount)

(* However a channel ends, its whole value is paid out: either according to *)
(* a promise its sender signed for this id, or back to the sender, and the  *)
(* latter never before settlingPeriod blocks have passed since the sender   *)
(* announced settlement (settle, claim and startSettling together).         *)
EndsFairly == [][\A id \in Id : FairEnd(id)]_vars

SameTerms(id) ==
  LET old == channels[id]
      new == channels'[id]
  IN isPresent(id) /\ isPresent(id)' =>
       /\ new.sender = old.sender
       /\ new.receiver = old.receiver
       /\ new.settlingPeriod = old.settlingPeriod
       /\ new.value >= old.value
       /\ isSettling(id) => new = old

(* While a channel lives its parties and period are fixed, its value never  *)
(* shrinks, and from the announcement on its value and deadline are frozen: *)
(* a promise the receiver accepted keeps its worth and its time to be       *)
(* claimed, whatever the sender or anyone else calls.                       *)
TermsHold == [][\A id \in Id : SameTerms(id)]_vars

BalancedStep ==
  \/ UNCHANGED <<channels, balance>>
  \/ \E id \in Id :
       /\ \A other \in Id \ {id} : channels'[other] = channels[other]
       /\ balance' - balance = channels'[id].value - channels[id].value

(* A step moves money through at most one channel, and the contract's       *)
(* balance changes by exactly what that channel's value changes.            *)
StepsBalance == [][BalancedStep]_vars

(* If pauses end, every announced channel whose sender can be paid is       *)
(* eventually closed: the deadline is reached and settle is not refused,    *)
(* neither by its guards nor for lack of money in the contract.             *)
AnnouncedIsClosed ==
  <>[]~paused => \A id \in Id :
     (isSettling(id) /\ channels[id].sender \in Accepting) ~> isAbsent(id)

(* The contract implements the lifecycle of its documentation: the phase of *)
(* a settling channel expires at its deadline, the escrow is its value.     *)
Phase(id) == IF isAbsent(id) THEN "none"
             ELSE IF isOpen(id) THEN "open"
             ELSE IF number < channels[id].settlingUntil THEN "settling"
             ELSE "expired"

Phases == [id \in Id |-> Phase(id)]
Parties == [id \in Id |-> [sender |-> channels[id].sender,
                           receiver |-> channels[id].receiver]]
Escrows == [id \in Id |-> channels[id].value]

Lifecycle == INSTANCE ChannelLifecycle WITH
  Nobody <- Zero, phase <- Phases, parties <- Parties, escrow <- Escrows,
  purse <- wallet, promised <- signed

ImplementsLifecycle == Lifecycle!Spec

(* The contract this one replaced, which pays with "transfer" and so pays    *)
(* only Frugal accounts; and the same contract had it paid as this one does, *)
(* with a call that forwards all the gas.                                    *)
Legacy == INSTANCE LegacyUnidirectional WITH Accepting <- Frugal
Generous == INSTANCE LegacyUnidirectional

\* A channel closes by the old rules, but one of those it pays needs more
\* gas than the old contract left it.
PaysBeyondTransfer == \E id \in Id :
  LET channel == channels[id] IN
  \/ channel.sender \notin Frugal /\ Generous!settle(id)
  \/ \E payment \in Promise :
       /\ \/ channel.receiver \notin Frugal
          \/ payment < channel.value /\ channel.sender \notin Frugal
       /\ Generous!claim(channel.receiver, id, payment)

(* The upgradeable contract does nothing to the channels and the money that *)
(* the contract it replaced (Unidirectional.sol) would not have done, with  *)
(* one exception: it closes channels whose payees need more gas than        *)
(* "transfer" leaves them, which the old contract could not pay at all, and *)
(* it closes them by the old rules.  The converse is false: it refuses      *)
(* deposits of nothing, and everything while it is paused.                  *)
ImplementsLegacy ==
  Legacy!Init /\ [][Legacy!Next \/ PaysBeyondTransfer]_(Legacy!vars)
=============================================================================
