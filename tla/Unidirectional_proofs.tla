------------------------ MODULE Unidirectional_proofs ------------------------
(***************************************************************************)
(* Proofs about the Ether channel contract, for any sets of channels,      *)
(* accounts, values and periods and any uint256 bound.                     *)
(*                                                                         *)
(* IInv, the conjunction of the type invariant and of WellFormed, is       *)
(* inductive: the guards of settle and of claim need no fact about the     *)
(* past, and what they leave behind is the Deleted record.  The action     *)
(* properties and the refinement then follow step by step from IInv.       *)
(***************************************************************************)
EXTENDS Unidirectional, Sums_proofs

IInv == TypeOK /\ WellFormed

LEMMA DeletedType == Deleted \in PaymentChannel /\ Deleted.sender = Zero
                       /\ Deleted.settlingUntil = 0
BY DEF Deleted, PaymentChannel, Address

LEMMA InitIInv == Init => IInv
<1> SUFFICES ASSUME Init
             PROVE  IInv
  OBVIOUS
<1>1. TypeOK
  BY DeletedType, AddressAssumption, NumberAssumption DEF Init, TypeOK, Address
<1>2. WellFormed
  BY DeletedType DEF Init, WellFormed, ChannelWellFormed, isAbsent, isPresent,
     isSettling, isOpen
<1> QED BY <1>1, <1>2 DEF IInv

LEMMA OpenIInv ==
  ASSUME IInv, NEW caller \in Account, NEW id \in Id, NEW receiver \in Address,
         NEW value \in Value, NEW settlingPeriod \in Period,
         open(caller, id, receiver, value, settlingPeriod)
  PROVE  IInv'
<1> USE AddressAssumption, NumberAssumption
<1>1. value \in Nat /\ settlingPeriod \in Nat
  OBVIOUS
<1>2. TypeOK'
  BY <1>1 DEF IInv, TypeOK, open, PaymentChannel, Address, governance
<1>3. WellFormed'
  BY <1>1 DEF IInv, TypeOK, WellFormed, ChannelWellFormed, open, isAbsent, isPresent,
     isSettling, isOpen, Address, governance
<1> QED BY <1>2, <1>3 DEF IInv

LEMMA DepositIInv ==
  ASSUME IInv, NEW caller \in Account, NEW id \in Id, NEW value \in Value,
         deposit(caller, id, value)
  PROVE  IInv'
<1> USE AddressAssumption, NumberAssumption
<1>1. value \in Nat
  OBVIOUS
<1>2. TypeOK'
  BY <1>1 DEF IInv, TypeOK, deposit, PaymentChannel, governance
<1>3. WellFormed'
  BY <1>1 DEF IInv, TypeOK, WellFormed, ChannelWellFormed, PaymentChannel, Deleted, deposit,
     canDeposit, isAbsent, isPresent, isSettling, isOpen, governance
<1> QED BY <1>2, <1>3 DEF IInv

LEMMA StartSettlingIInv ==
  ASSUME IInv, NEW caller \in Account, NEW id \in Id, startSettling(caller, id)
  PROVE  IInv'
<1>1. TypeOK'
  BY DEF IInv, TypeOK, startSettling, PaymentChannel, governance, money
<1>2. WellFormed'
  BY DEF IInv, TypeOK, WellFormed, ChannelWellFormed, PaymentChannel, Deleted, startSettling,
     canStartSettling, isAbsent, isPresent, isSettling, isOpen, governance
<1> QED BY <1>1, <1>2 DEF IInv

\* What settle and claim leave behind.
LEMMA DeleteWellFormed ==
  ASSUME IInv, NEW id \in Id,
         channels' = [channels EXCEPT ![id] = Deleted],
         announced' = [announced EXCEPT ![id] = 0],
         UNCHANGED number
  PROVE  /\ channels' \in [Id -> PaymentChannel]
         /\ announced' \in [Id -> Nat]
         /\ WellFormed'
BY DEF IInv, TypeOK, WellFormed, ChannelWellFormed, PaymentChannel, Address, Deleted,
   isAbsent, isPresent, isSettling, isOpen

LEMMA SettleIInv ==
  ASSUME IInv, NEW id \in Id, settle(id)
  PROVE  IInv'
<1>1. /\ channels' \in [Id -> PaymentChannel]
      /\ announced' \in [Id -> Nat]
      /\ WellFormed'
  BY DeleteWellFormed DEF settle, Delete
<1>2. channels[id].sender \in Account /\ channels[id].value \in Nat
  BY DEF IInv, TypeOK, PaymentChannel, Address, settle, isPresent, isAbsent
<1>3. balance' \in Nat /\ wallet' \in [Account -> Nat]
  BY <1>2 DEF IInv, TypeOK, settle, CanPay, Pay
<1> QED BY <1>1, <1>3 DEF IInv, TypeOK, settle, governance

LEMMA ClaimIInv ==
  ASSUME IInv, NEW caller \in Account, NEW id \in Id, NEW payment \in Promise,
         NEW signer \in Account, claim(caller, id, payment, signer)
  PROVE  IInv'
<1>1. /\ channels' \in [Id -> PaymentChannel]
      /\ announced' \in [Id -> Nat]
      /\ WellFormed'
  BY DeleteWellFormed DEF claim, Delete
<1>2. /\ channels[id].sender \in Account
      /\ channels[id].receiver \in Account
      /\ channels[id].value \in Nat
      /\ payment \in Nat
  BY NumberAssumption DEF IInv, TypeOK, PaymentChannel, claim, canClaim
<1>3. balance' \in Nat /\ wallet' \in [Account -> Nat]
  BY <1>2 DEF IInv, TypeOK, claim, CanPay, Pay
<1> QED BY <1>1, <1>3 DEF IInv, TypeOK, claim, governance

LEMMA GovernIInv ==
  ASSUME IInv, Governs
  PROVE  IInv'
<1>1. UNCHANGED <<channels, number, balance, wallet, signed, announced>>
  BY DEF Governs, pause, unpause, transferOwnership, acceptOwnership, renounceOwnership, money
<1>2. paused' \in BOOLEAN /\ owner' \in Address /\ pendingOwner' \in Address
  BY AddressAssumption DEF IInv, TypeOK, Governs, pause, unpause, transferOwnership,
     acceptOwnership, renounceOwnership, Address
<1> QED BY <1>1, <1>2 DEF IInv, TypeOK, WellFormed, ChannelWellFormed, isAbsent,
     isPresent, isSettling, isOpen

LEMMA SignIInv ==
  ASSUME IInv, Signs
  PROVE  IInv'
BY DEF IInv, TypeOK, WellFormed, ChannelWellFormed, isAbsent, isPresent, isSettling,
   isOpen, Signs, Sign, PromiseOf, governance, money

LEMMA MineIInv ==
  ASSUME IInv, Mine
  PROVE  IInv'
BY NumberAssumption DEF IInv, TypeOK, WellFormed, ChannelWellFormed,
   isAbsent, isPresent, isSettling,
   isOpen, Mine, governance, money

LEMMA NextIInv == IInv /\ [Next]_vars => IInv'
<1> SUFFICES ASSUME IInv, [Next]_vars
             PROVE  IInv'
  OBVIOUS
<1>1. CASE Opens
  BY <1>1, OpenIInv DEF Opens
<1>2. CASE Deposits
  BY <1>2, DepositIInv DEF Deposits
<1>3. CASE StartsSettling
  BY <1>3, StartSettlingIInv DEF StartsSettling
<1>4. CASE Settles
  BY <1>4, SettleIInv DEF Settles
<1>5. CASE Claims
  BY <1>5, ClaimIInv DEF Claims
<1>6. CASE Governs
  BY <1>6, GovernIInv
<1>7. CASE Signs
  BY <1>7, SignIInv
<1>8. CASE Mine
  BY <1>8, MineIInv
<1>9. CASE UNCHANGED vars
  BY <1>9 DEF vars, IInv, TypeOK, WellFormed, ChannelWellFormed, isAbsent, isPresent,
     isSettling, isOpen
<1> QED BY <1>1, <1>2, <1>3, <1>4, <1>5, <1>6, <1>7, <1>8, <1>9 DEF Next

(* Every reachable state of the contract is well typed and every channel    *)
(* record well formed: deleted altogether, or funded, with the deadline one *)
(* settling period after its announcement.                                  *)
THEOREM Invariance == Spec => [](TypeOK /\ WellFormed)
<1>1. Spec => []IInv
  BY InitIInv, NextIInv, PTL DEF Spec
<1> QED BY <1>1, PTL DEF IInv

-----------------------------------------------------------------------------
(* What a step does to the channels, the money and the promises: the action *)
(* properties need no more of the transactions than this.                   *)

LEMMA ClaimSplits ==
  ASSUME IInv, NEW caller \in Account, NEW id \in Id, NEW payment \in Promise,
         NEW signer \in Account, claim(caller, id, payment, signer)
  PROVE  \E promise \in signed : /\ promise.signer = channels[id].sender
                                 /\ promise.id = id
                                 /\ Splits(id, promise.amount)
<1> DEFINE promise == [signer |-> signer, id |-> id, amount |-> payment]
           channel == channels[id]
<1>1. /\ channel.sender \in Account
      /\ channel.receiver \in Account
      /\ channel.value \in Nat
      /\ payment \in Nat
      /\ wallet \in [Account -> Nat]
  BY NumberAssumption DEF IInv, TypeOK, PaymentChannel, claim, canClaim
<1>2. promise \in signed /\ promise.signer = channel.sender
  BY DEF claim, canClaim
<1>3. Splits(id, payment)
  <2>1. CASE payment >= channel.value
    <3>1. wallet' = [wallet EXCEPT ![channel.receiver] = @ + channel.value]
      BY <1>1, <2>1 DEF claim, Pay
    <3> QED BY <1>1, <2>1, <3>1 DEF Splits, Gain
  <2>2. CASE payment < channel.value
    <3>1. wallet' = [[wallet EXCEPT ![channel.receiver] = @ + payment]
                            EXCEPT ![channel.sender] = @ + (channel.value - payment)]
      BY <1>1, <2>2 DEF claim, Pay
    <3> QED BY <1>1, <2>2, <3>1 DEF Splits, Gain
  <2> QED BY <1>1, <2>1, <2>2
<1> QED BY <1>2, <1>3

LEMMA SettleSplits ==
  ASSUME IInv, NEW id \in Id, settle(id)
  PROVE  PeriodElapsed(id) /\ Splits(id, 0)
<1>1. /\ channels[id].sender \in Account
      /\ channels[id].value \in Nat
      /\ channels[id].settlingPeriod \in Nat
      /\ wallet \in [Account -> Nat]
      /\ number \in Nat
  BY DEF IInv, TypeOK, PaymentChannel, Address, settle, isPresent, isAbsent
<1>2. PeriodElapsed(id)
  BY <1>1 DEF IInv, TypeOK, WellFormed, ChannelWellFormed, settle, isSettling, isPresent,
     isAbsent, PeriodElapsed, canSettle
<1>3. Splits(id, 0)
  <2>1. wallet' = [wallet EXCEPT ![channels[id].sender] = @ + channels[id].value]
    BY DEF settle, Pay
  <2>2. channels[id].value > 0
    BY DEF IInv, WellFormed, ChannelWellFormed, settle
  <2> QED BY <1>1, <2>1, <2>2 DEF Splits, Gain
<1> QED BY <1>2, <1>3

LEMMA NextFairEnd == IInv /\ [Next]_vars => [\A id \in Id : FairEnd(id)]_vars
<1> SUFFICES ASSUME IInv, Next, NEW id \in Id, Ends(id)
             PROVE  \/ PeriodElapsed(id) /\ Splits(id, 0)
                    \/ \E promise \in signed :
                         /\ promise.signer = channels[id].sender
                         /\ promise.id = id
                         /\ Splits(id, promise.amount)
  BY DEF FairEnd
<1>1. CASE Opens
  BY <1>1 DEF Opens, open, Ends, isPresent, isAbsent, IInv, TypeOK, PaymentChannel
<1>2. CASE Deposits \/ StartsSettling
  <2>1. channels'[id].sender = channels[id].sender
    BY <1>2 DEF Deposits, StartsSettling, deposit, startSettling, IInv, TypeOK,
       PaymentChannel
  <2> QED BY <2>1 DEF Ends, isPresent, isAbsent
<1>3. CASE Settles
  <2>1. PICK j \in Id : settle(j)
    BY <1>3 DEF Settles
  <2>2. j = id
    BY <2>1 DEF settle, Ends, isPresent, isAbsent, IInv, TypeOK, Delete
  <2> QED BY <2>1, <2>2, SettleSplits
<1>4. CASE Claims
  <2>1. PICK caller \in Account, j \in Id, payment \in Promise, signer \in Account :
          claim(caller, j, payment, signer)
    BY <1>4 DEF Claims
  <2>2. j = id
    BY <2>1 DEF claim, Ends, isPresent, isAbsent, IInv, TypeOK, Delete
  <2> QED BY <2>1, <2>2, ClaimSplits
<1>5. CASE Governs \/ Signs \/ Mine
  BY <1>5 DEF Governs, pause, unpause, transferOwnership, acceptOwnership,
       renounceOwnership, Signs, Sign, Mine, Ends, isPresent, isAbsent
<1> QED BY <1>1, <1>2, <1>3, <1>4, <1>5 DEF Next

(* A channel ends by a promise its sender signed for it, or by a refund     *)
(* that came no earlier than one settling period after its announcement,    *)
(* and either way pays out its whole value.                                 *)
THEOREM FairEnding == Spec => EndsFairly
<1>1. Spec => []IInv
  BY InitIInv, NextIInv, PTL DEF Spec
<1> QED BY <1>1, NextFairEnd, PTL DEF Spec, EndsFairly

LEMMA NextSameTerms == IInv /\ [Next]_vars => [\A id \in Id : SameTerms(id)]_vars
<1> SUFFICES ASSUME IInv, Next, NEW id \in Id, isPresent(id), isPresent(id)'
             PROVE  SameTerms(id)
  BY DEF SameTerms
<1>1. channels[id] \in PaymentChannel
  BY DEF IInv, TypeOK
<1>2. CASE channels'[id] = channels[id]
  BY <1>1, <1>2 DEF SameTerms, PaymentChannel
<1>3. CASE Opens
  <2>1. channels'[id] = channels[id]
    BY <1>3 DEF Opens, open, isPresent, isAbsent, IInv, TypeOK
  <2> QED BY <2>1, <1>2
<1>4. CASE Deposits
  BY <1>1, <1>4, NumberAssumption DEF Deposits, deposit, canDeposit, isOpen, isSettling,
     SameTerms, PaymentChannel, IInv, TypeOK
<1>5. CASE StartsSettling
  BY <1>1, <1>5 DEF StartsSettling, startSettling, canStartSettling, isOpen, isSettling,
     SameTerms, PaymentChannel, IInv, TypeOK
<1>6. CASE Settles \/ Claims
  <2>1. channels'[id] = channels[id]
    BY <1>6, DeletedType DEF Settles, settle, Claims, claim, isPresent, isAbsent, IInv,
       TypeOK, Delete
  <2> QED BY <2>1, <1>2
<1>7. CASE Governs \/ Signs \/ Mine
  <2>1. channels'[id] = channels[id]
    BY <1>7 DEF Governs, pause, unpause, transferOwnership, acceptOwnership,
         renounceOwnership, Signs, Sign, Mine
  <2> QED BY <2>1, <1>2
<1> QED BY <1>3, <1>4, <1>5, <1>6, <1>7 DEF Next

(* Nothing anyone calls worsens a living channel for its receiver.          *)
THEOREM TermsAreKept == Spec => TermsHold
<1>1. Spec => []IInv
  BY InitIInv, NextIInv, PTL DEF Spec
<1> QED BY <1>1, NextSameTerms, PTL DEF Spec, TermsHold

LEMMA NextBalanced == IInv /\ [Next]_vars => [BalancedStep]_vars
<1> SUFFICES ASSUME IInv, Next
             PROVE  BalancedStep
  OBVIOUS
<1>1. channels \in [Id -> PaymentChannel] /\ balance \in Nat
  BY DEF IInv, TypeOK
<1>2. CASE Opens
  <2>1. PICK caller \in Account, id \in Id, receiver \in Address, value \in Value,
             settlingPeriod \in Period :
          open(caller, id, receiver, value, settlingPeriod)
    BY <1>2 DEF Opens
  <2>2. channels[id].value = 0 /\ channels'[id].value = value /\ value \in Nat
    BY <1>1, <2>1, NumberAssumption DEF open, IInv, WellFormed, ChannelWellFormed, Deleted
  <2> QED BY <1>1, <2>1, <2>2 DEF open, BalancedStep
<1>3. CASE Deposits
  <2>1. PICK caller \in Account, id \in Id, value \in Value : deposit(caller, id, value)
    BY <1>3 DEF Deposits
  <2>2. /\ channels'[id].value = channels[id].value + value
        /\ value \in Nat /\ channels[id].value \in Nat
    BY <1>1, <2>1, NumberAssumption DEF deposit, PaymentChannel
  <2> QED BY <1>1, <2>1, <2>2 DEF deposit, BalancedStep
<1>4. CASE StartsSettling
  <2>1. PICK caller \in Account, id \in Id : startSettling(caller, id)
    BY <1>4 DEF StartsSettling
  <2>2. channels'[id].value = channels[id].value /\ channels[id].value \in Nat
    BY <1>1, <2>1 DEF startSettling, PaymentChannel
  <2> QED BY <1>1, <2>1, <2>2 DEF startSettling, BalancedStep, money
<1>5. CASE Settles \/ Claims
  <2>1. PICK id \in Id : /\ channels' = [channels EXCEPT ![id] = Deleted]
                         /\ balance' = balance - channels[id].value
    BY <1>5 DEF Settles, settle, Claims, claim, Delete
  <2>2. channels'[id].value = 0 /\ channels[id].value \in Nat
    BY <1>1, <2>1 DEF Deleted, PaymentChannel
  <2> QED BY <1>1, <2>1, <2>2 DEF BalancedStep
<1>6. CASE Governs \/ Signs \/ Mine
  BY <1>6 DEF Governs, pause, unpause, transferOwnership, acceptOwnership,
       renounceOwnership, Signs, Sign, Mine, money, BalancedStep
<1> QED BY <1>2, <1>3, <1>4, <1>5, <1>6 DEF Next

(* The contract's balance follows the values of its channels step by step.  *)
THEOREM EveryStepBalances == Spec => StepsBalance
<1>1. Spec => []IInv
  BY InitIInv, NextIInv, PTL DEF Spec
<1> QED BY <1>1, NextBalanced, PTL DEF Spec, StepsBalance

-----------------------------------------------------------------------------
(* Solvency: the steps add up, as there are only so many channel ids.       *)

Owed == Sum([id \in Id |-> channels[id].value], Id)
HoldsWhatItOwes == balance = Owed
Funded == \A id \in Id : channels[id].value <= balance

LEMMA StepOwed ==
  ASSUME IsFiniteSet(Id), IInv, IInv', BalancedStep, balance = Owed
  PROVE  balance' = Owed'
<1> DEFINE old == [id \in Id |-> channels[id].value]
           new == [id \in Id |-> channels'[id].value]
<1>1. balance \in Int /\ balance' \in Int
  BY DEF IInv, TypeOK
<1>2. \A id \in Id : old[id] \in Int /\ new[id] \in Int
  BY DEF IInv, TypeOK, PaymentChannel
<1>3. Owed = Sum(old, Id) /\ Owed' = Sum(new, Id)
  BY DEF Owed
<1>4. CASE UNCHANGED <<channels, balance>>
  BY <1>4 DEF Owed
<1>5. CASE ~ UNCHANGED <<channels, balance>>
  <2>1. PICK id \in Id : /\ \A other \in Id \ {id} : channels'[other] = channels[other]
                       /\ balance' - balance = new[id] - old[id]
    BY <1>5 DEF BalancedStep
  <2>2. \A other \in Id \ {id} : old[other] = new[other]
    BY <2>1
  <2> HIDE DEF old, new
  <2>3. Sum(new, Id) = Sum(old, Id) - old[id] + new[id] /\ Sum(old, Id) \in Int
    BY <1>2, <2>2, SumChanges, SumType
  <2> QED BY <1>1, <1>2, <1>3, <2>1, <2>3
<1> QED BY <1>4, <1>5

(* The contract holds exactly what its channels are worth, so each of them  *)
(* is covered and settle and claim never fail for lack of money: no order   *)
(* of openings, deposits, claims and settlements pays a channel out of      *)
(* another's money or leaves any behind.                                    *)
THEOREM BalanceIsOwed ==
  ASSUME IsFiniteSet(Id)
  PROVE  Spec => [](HoldsWhatItOwes /\ Funded)
<1>1. Init => HoldsWhatItOwes
  <2> SUFFICES ASSUME Init PROVE balance = Owed
    BY DEF HoldsWhatItOwes
  <2> DEFINE values == [id \in Id |-> channels[id].value]
  <2>1. \A id \in Id : values[id] = 0
    BY DEF Init, Deleted
  <2> HIDE DEF values
  <2>2. Sum(values, Id) = 0
    BY <2>1, SumOfZeros
  <2> QED BY <2>2 DEF Init, Owed, values
<1>2. IInv /\ IInv' /\ HoldsWhatItOwes /\ [Next]_vars => HoldsWhatItOwes'
  BY NextBalanced, StepOwed DEF vars, BalancedStep, HoldsWhatItOwes
<1>3. IInv /\ HoldsWhatItOwes => Funded
  <2> SUFFICES ASSUME IInv, balance = Owed, NEW id \in Id
               PROVE  channels[id].value <= balance
    BY DEF HoldsWhatItOwes, Funded
  <2> DEFINE values == [x \in Id |-> channels[x].value]
  <2>1. \A x \in Id : values[x] \in Nat
    BY DEF IInv, TypeOK, PaymentChannel
  <2>2. values[id] = channels[id].value
    OBVIOUS
  <2> HIDE DEF values
  <2>3. values[id] <= Sum(values, Id)
    BY <2>1, SumCovers
  <2> QED BY <2>2, <2>3 DEF Owed, values
<1>4. Spec => []IInv
  BY InitIInv, NextIInv, PTL DEF Spec
<1> QED BY <1>1, <1>2, <1>3, <1>4, PTL DEF Spec

-----------------------------------------------------------------------------
(* The contract implements ChannelLifecycle: every transaction is one step  *)
(* of the lifecycle, a mined block is the expiry of the channels whose      *)
(* deadline it reaches, and governance is a stutter.                        *)


LEMMA InitLifecycle == Init => Lifecycle!Init
<1> SUFFICES ASSUME Init
             PROVE  Lifecycle!Init
  OBVIOUS
<1>1. \A id \in Id : channels[id] = Deleted /\ Phase(id) = "none"
  BY DEF Init, Phase, isAbsent, Deleted
<1> QED BY <1>1 DEF Init, Lifecycle!Init, Deleted, Phases, Parties, Escrows

\* A transaction on one channel changes the image of that channel alone.
LEMMA OneChannel ==
  ASSUME IInv, NEW id \in Id, NEW new \in PaymentChannel, UNCHANGED number,
         channels' = [channels EXCEPT ![id] = new]
  PROVE  /\ Phases' = [Phases EXCEPT ![id] = Phase(id)']
         /\ Parties' = [Parties EXCEPT ![id] = [sender |-> new.sender,
                                                receiver |-> new.receiver]]
         /\ Escrows' = [Escrows EXCEPT ![id] = new.value]
<1>1. /\ channels'[id] = new
      /\ \A other \in Id \ {id} : channels'[other] = channels[other]
  BY DEF IInv, TypeOK
<1>2. \A other \in Id \ {id} : Phase(other)' = Phase(other)
  BY <1>1 DEF Phase, isAbsent, isPresent, isSettling, isOpen
<1>3. Phases' = [Phases EXCEPT ![id] = Phase(id)']
  BY <1>2 DEF Phases
<1>4. Parties' = [Parties EXCEPT ![id] = [sender |-> new.sender,
                                          receiver |-> new.receiver]]
  BY <1>1 DEF Parties
<1>5. Escrows' = [Escrows EXCEPT ![id] = new.value]
  <2>1. \A j \in Id : channels'[j].value = IF j = id THEN new.value ELSE channels[j].value
    BY <1>1
  <2> QED BY <2>1 DEF Escrows
<1> QED BY <1>3, <1>4, <1>5

\* The image of a transaction that leaves the parties alone.
LEMMA SameParties ==
  ASSUME IInv, NEW id \in Id, NEW new \in PaymentChannel, UNCHANGED number,
         channels' = [channels EXCEPT ![id] = new],
         new.sender = channels[id].sender, new.receiver = channels[id].receiver
  PROVE  Parties' = Parties
<1>1. \A j \in Id : /\ channels'[j].sender = channels[j].sender
                    /\ channels'[j].receiver = channels[j].receiver
  BY DEF IInv, TypeOK
<1> QED BY <1>1 DEF Parties

LEMMA OpenLifecycle ==
  ASSUME IInv, NEW caller \in Account, NEW id \in Id, NEW receiver \in Address,
         NEW value \in Value, NEW settlingPeriod \in Period,
         open(caller, id, receiver, value, settlingPeriod)
  PROVE  /\ receiver \in Account
         /\ value \in 1 .. wallet[caller]
         /\ Lifecycle!Open(id, caller, receiver, value)
<1> DEFINE new == [sender |-> caller, receiver |-> receiver, value |-> value,
                   settlingPeriod |-> settlingPeriod, settlingUntil |-> 0]
<1>1. receiver \in Account /\ value \in 1 .. wallet[caller]
  BY NumberAssumption DEF open, Address, IInv, TypeOK
<1>2. new \in PaymentChannel /\ channels' = [channels EXCEPT ![id] = new]
  BY <1>1, NumberAssumption DEF open, PaymentChannel, Address
<1>3. Phases[id] = "none" /\ Phase(id)' = "open"
  BY <1>2, AddressAssumption DEF open, Phases, Phase, isAbsent, isPresent, isSettling,
     isOpen, IInv, TypeOK
<1>4. Lifecycle!Funds(caller, value)
  BY <1>1 DEF Lifecycle!Funds, open
<1>5. Lifecycle!Open(id, caller, receiver, value)
  BY <1>2, <1>3, <1>4, OneChannel DEF Lifecycle!Open, open
<1> QED BY <1>1, <1>5

LEMMA DepositLifecycle ==
  ASSUME IInv, NEW caller \in Account, NEW id \in Id, NEW value \in Value,
         deposit(caller, id, value)
  PROVE  /\ Phases[id] = "open"
         /\ value \in 1 .. wallet[Parties[id].sender]
         /\ Lifecycle!TopUp(id, value)
<1> DEFINE new == [channels[id] EXCEPT !.value = @ + value]
<1>1. value \in 1 .. wallet[caller] /\ channels[id] \in PaymentChannel
  BY NumberAssumption DEF deposit, IInv, TypeOK
<1>2. new \in PaymentChannel /\ channels' = [channels EXCEPT ![id] = new]
  BY <1>1 DEF deposit, PaymentChannel
<1>3. Phases[id] = "open" /\ Parties[id].sender = caller
  BY DEF deposit, canDeposit, Phases, Parties, Phase, isOpen, isPresent
<1>4. Phase(id)' = "open"
  BY <1>1, <1>2 DEF deposit, canDeposit, Phase, isAbsent, isPresent, isSettling, isOpen,
     IInv, TypeOK, PaymentChannel
<1>5. /\ new.sender = channels[id].sender
      /\ new.receiver = channels[id].receiver
      /\ new.value = channels[id].value + value
  BY <1>1 DEF PaymentChannel
<1>6. Phases' = Phases /\ Parties' = Parties
  <2>1. Phases' = [Phases EXCEPT ![id] = "open"]
    BY <1>2, <1>4, OneChannel DEF deposit
  <2> QED BY <1>2, <1>3, <1>5, <2>1, SameParties DEF deposit, Phases
<1>7. Escrows' = [Escrows EXCEPT ![id] = @ + value]
  <2>1. Escrows' = [Escrows EXCEPT ![id] = new.value] /\ Escrows[id] = channels[id].value
    BY <1>2, OneChannel DEF deposit, Escrows
  <2> QED BY <1>5, <2>1
<1>8. Lifecycle!TopUp(id, value)
  BY <1>1, <1>3, <1>6, <1>7 DEF Lifecycle!TopUp, Lifecycle!Funds, deposit
<1> QED BY <1>1, <1>3, <1>8

LEMMA StartSettlingLifecycle ==
  ASSUME IInv, NEW caller \in Account, NEW id \in Id, startSettling(caller, id)
  PROVE  Lifecycle!Announce(id)
<1> DEFINE until == number + channels[id].settlingPeriod
           new == [channels[id] EXCEPT !.settlingUntil = until]
<1>1. channels[id] \in PaymentChannel /\ number \in Nat
  BY DEF IInv, TypeOK
<1>2. channels[id].settlingPeriod > 0 /\ isPresent(id)
  BY DEF startSettling, canStartSettling, isOpen, IInv, WellFormed, ChannelWellFormed
<1>3. new \in PaymentChannel /\ channels' = [channels EXCEPT ![id] = new]
  BY <1>1 DEF startSettling, PaymentChannel
<1>4. /\ new.settlingUntil = until
      /\ new.sender = channels[id].sender
      /\ new.receiver = channels[id].receiver
      /\ new.value = channels[id].value
      /\ until > number
  BY <1>1, <1>2 DEF PaymentChannel
<1>5. Phases[id] = "open" /\ Phase(id)' = "settling"
  <2>1. channels'[id] = new /\ number' = number
    BY <1>3 DEF startSettling, IInv, TypeOK
  <2>2. /\ channels'[id].sender = channels[id].sender
        /\ channels'[id].settlingUntil > number'
        /\ channels'[id].settlingUntil # 0
    BY <1>1, <1>4, <2>1
  <2>3. Phases[id] = "open"
    BY <1>2 DEF startSettling, canStartSettling, Phases, Phase, isPresent
  <2>4. Phase(id)' = "settling"
    BY <1>2, <2>2 DEF Phase, isAbsent, isPresent, isSettling, isOpen
  <2> QED BY <2>3, <2>4
<1>6. number' = number
  BY DEF startSettling
<1>7. Parties' = Parties
  BY <1>3, <1>4, <1>6, SameParties
<1>8. Escrows' = Escrows
  <2>1. Escrows' = [Escrows EXCEPT ![id] = new.value]
    BY <1>3, <1>6, OneChannel
  <2> QED BY <1>4, <2>1 DEF Escrows
<1>9. Phases' = [Phases EXCEPT ![id] = "settling"]
  <2>1. Phases' = [Phases EXCEPT ![id] = Phase(id)']
    BY <1>3, <1>6, OneChannel
  <2> QED BY <1>5, <2>1
<1> QED BY <1>5, <1>7, <1>8, <1>9 DEF Lifecycle!Announce, startSettling, money

\* settle and claim delete the channel: its image is the channel that never was.
LEMMA DeleteLifecycle ==
  ASSUME IInv, NEW id \in Id, UNCHANGED number,
         channels' = [channels EXCEPT ![id] = Deleted]
  PROVE  /\ Phases' = [Phases EXCEPT ![id] = "none"]
         /\ Parties' = [Parties EXCEPT ![id] = [sender |-> Zero, receiver |-> Zero]]
         /\ Escrows' = [Escrows EXCEPT ![id] = 0]
<1>1. Deleted.sender = Zero /\ Deleted.receiver = Zero /\ Deleted.value = 0
  BY DEF Deleted
<1>2. Phase(id)' = "none"
  BY <1>1 DEF Phase, isAbsent, IInv, TypeOK
<1>3. Deleted \in PaymentChannel /\ number' = number
  BY DeletedType
<1>4. /\ Phases' = [Phases EXCEPT ![id] = Phase(id)']
      /\ Parties' = [Parties EXCEPT ![id] = [sender |-> Deleted.sender,
                                             receiver |-> Deleted.receiver]]
      /\ Escrows' = [Escrows EXCEPT ![id] = Deleted.value]
  BY <1>3, OneChannel
<1> QED BY <1>1, <1>2, <1>4

LEMMA SettleLifecycle ==
  ASSUME IInv, NEW id \in Id, settle(id)
  PROVE  Lifecycle!Refund(id)
<1>1. /\ channels[id].sender \in Account
      /\ channels[id].receiver \in Account
      /\ channels[id].value \in Nat
      /\ wallet \in [Account -> Nat]
  BY DEF IInv, TypeOK, WellFormed, ChannelWellFormed, PaymentChannel, Address, settle,
     isPresent, isAbsent
<1>2. Phases[id] = "expired"
  BY DEF settle, Phases, Phase, isPresent, isOpen, IInv, TypeOK, PaymentChannel, canSettle
<1>3. wallet' = [[wallet EXCEPT ![channels[id].receiver] = @ + 0]
                        EXCEPT ![channels[id].sender] = @ + (channels[id].value - 0)]
  <2>1. wallet' = [wallet EXCEPT ![channels[id].sender] = @ + channels[id].value]
    BY DEF settle, Pay
  <2>2. [wallet EXCEPT ![channels[id].receiver] = @ + 0] = wallet
    BY <1>1
  <2>3. channels[id].value - 0 = channels[id].value
    BY <1>1
  <2> QED BY <2>1, <2>2, <2>3
<1>4. /\ Parties[id].sender = channels[id].sender
      /\ Parties[id].receiver = channels[id].receiver
      /\ Escrows[id] = channels[id].value
  BY DEF Parties, Escrows
<1>5. Lifecycle!Divide(id, 0)
  BY <1>3, <1>4, DeleteLifecycle DEF Lifecycle!Divide, settle, Delete
<1> QED BY <1>2, <1>5 DEF Lifecycle!Refund

LEMMA ClaimLifecycle ==
  ASSUME IInv, NEW caller \in Account, NEW id \in Id, NEW payment \in Promise,
         NEW signer \in Account, claim(caller, id, payment, signer)
  PROVE  Lifecycle!Redeem(id, payment)
<1> DEFINE value == channels[id].value
           share == IF payment < value THEN payment ELSE value
<1>1. /\ channels[id].sender \in Account
      /\ channels[id].receiver \in Account
      /\ value \in Nat
      /\ payment \in Nat
      /\ wallet \in [Account -> Nat]
  BY NumberAssumption DEF IInv, TypeOK, PaymentChannel, claim, canClaim
<1>2. Phases[id] # "none"
  BY DEF claim, canClaim, Phases, Phase, isPresent
<1>3. wallet' = [[wallet EXCEPT ![channels[id].receiver] = @ + share]
                        EXCEPT ![channels[id].sender] = @ + (value - share)]
  <2>1. CASE payment >= value
    <3>1. wallet' = [wallet EXCEPT ![channels[id].receiver] = @ + value]
      BY <1>1, <2>1 DEF claim, Pay
    <3>2. share = value /\ wallet'[channels[id].sender] \in Nat
      BY <1>1, <2>1, <3>1
    <3>3. wallet' \in [Account -> Nat] /\ value - share = 0
      BY <1>1, <3>1, <3>2
    <3>4. [wallet' EXCEPT ![channels[id].sender] = @ + 0] = wallet'
      BY <1>1, <3>3
    <3> QED BY <3>1, <3>2, <3>3, <3>4
  <2>2. CASE payment < value
    BY <1>1, <2>2 DEF claim, Pay
  <2> QED BY <1>1, <2>1, <2>2
<1>4. /\ Parties[id].sender = channels[id].sender
      /\ Parties[id].receiver = channels[id].receiver
      /\ Escrows[id] = value
  BY DEF Parties, Escrows
<1>5. Lifecycle!Divide(id, share)
  BY <1>3, <1>4, DeleteLifecycle DEF Lifecycle!Divide, claim, Delete
<1>6. [signer |-> channels[id].sender, id |-> id, amount |-> payment] \in signed
  BY DEF claim, canClaim
<1> QED BY <1>2, <1>4, <1>5, <1>6 DEF Lifecycle!Redeem

LEMMA MineLifecycle ==
  ASSUME IInv, Mine
  PROVE  \/ \E ids \in SUBSET Id : Lifecycle!Expire(ids)
         \/ UNCHANGED Lifecycle!vars
<1> DEFINE ids == {id \in Id : Phase(id) = "settling" /\ Phase(id)' = "expired"}
<1>1. UNCHANGED <<channels, wallet, signed>>
  BY DEF Mine, money
<1>2. Parties' = Parties /\ Escrows' = Escrows
  BY <1>1 DEF Parties, Escrows
<1>3. \A id \in Id \ ids : Phase(id)' = Phase(id)
  BY <1>1 DEF Mine, Phase, isAbsent, isPresent, isSettling, isOpen, IInv, TypeOK,
     PaymentChannel
<1>4. Phases' = [id \in Id |-> IF id \in ids THEN "expired" ELSE Phases[id]]
  BY <1>3 DEF Phases
<1>5. CASE ids = {}
  <2>1. Phases' = Phases
    BY <1>4, <1>5 DEF Phases
  <2> QED BY <1>1, <1>2, <2>1 DEF Lifecycle!vars
<1>6. CASE ids # {}
  <2>1. \A id \in ids : Phases[id] = "settling"
    BY DEF Phases
  <2>2. Lifecycle!Expire(ids)
    BY <1>1, <1>2, <1>4, <1>6, <2>1 DEF Lifecycle!Expire
  <2> QED BY <2>2
<1> QED BY <1>5, <1>6

LEMMA StutterLifecycle ==
  ASSUME UNCHANGED <<channels, number, wallet, signed>>
  PROVE  UNCHANGED Lifecycle!vars
BY DEF Lifecycle!vars, Phases, Parties, Escrows, Phase, isAbsent, isPresent, isSettling,
   isOpen

LEMMA SignLifecycle ==
  ASSUME NEW signer \in Account, NEW id \in Id, NEW amount \in Promise,
         Sign(signer, id, amount)
  PROVE  Lifecycle!Vow(signer, id, amount)
BY DEF Sign, money, Lifecycle!Vow, Phases, Parties, Escrows, Phase, isAbsent, isPresent,
   isSettling, isOpen

LEMMA NextLifecycle == IInv /\ [Next]_vars => [Lifecycle!Next]_(Lifecycle!vars)
<1> SUFFICES ASSUME IInv, [Next]_vars
             PROVE  Lifecycle!Next \/ UNCHANGED Lifecycle!vars
  OBVIOUS
<1>1. CASE Opens
  BY <1>1, OpenLifecycle DEF Opens, Lifecycle!Next
<1>2. CASE Deposits
  BY <1>2, DepositLifecycle DEF Deposits, Lifecycle!Next
<1>3. CASE StartsSettling
  BY <1>3, StartSettlingLifecycle DEF StartsSettling, Lifecycle!Next
<1>4. CASE Settles
  BY <1>4, SettleLifecycle DEF Settles, Lifecycle!Next
<1>5. CASE Claims
  BY <1>5, ClaimLifecycle DEF Claims, Lifecycle!Next
<1>6. CASE Governs
  BY <1>6, StutterLifecycle DEF Governs, pause, unpause, transferOwnership,
     acceptOwnership, renounceOwnership, money
<1>7. CASE Signs
  BY <1>7, SignLifecycle DEF Signs, Lifecycle!Next
<1>8. CASE Mine
  BY <1>8, MineLifecycle DEF Lifecycle!Next
<1>9. CASE UNCHANGED vars
  BY <1>9, StutterLifecycle DEF vars
<1> QED BY <1>1, <1>2, <1>3, <1>4, <1>5, <1>6, <1>7, <1>8, <1>9 DEF Next

(* Every behaviour of the contract is a behaviour of the documented channel *)
(* lifecycle, for any number of channels and accounts.                      *)
THEOREM Refinement == Spec => ImplementsLifecycle
<1>1. Spec => []IInv
  BY InitIInv, NextIInv, PTL DEF Spec
<1> QED BY <1>1, InitLifecycle, NextLifecycle, PTL DEF Spec, ImplementsLifecycle,
        Lifecycle!Spec

-----------------------------------------------------------------------------
(* The upgradeable Ether contract implements the one it replaced, but for   *)
(* the payees it can pay.  No invariant is needed: every check of the old   *)
(* contract but the gas of its transfers is among the checks of the new     *)
(* one, and the steps that are only the new one's (the pause and the        *)
(* ownership) leave the old one's variables alone.                          *)

USE DEF Legacy!isOpen, Legacy!isPresent, Legacy!isAbsent, Legacy!isSettling,
        Legacy!canDeposit, Legacy!canStartSettling, Legacy!canSettle,
        Legacy!canClaim, Legacy!Deleted, Legacy!CanPay, Legacy!Pay, Legacy!Close,
        Generous!isOpen, Generous!isPresent, Generous!isAbsent, Generous!isSettling,
        Generous!canSettle, Generous!canClaim, Generous!Deleted, Generous!CanPay,
        Generous!Pay, Generous!Close,
        isOpen, isPresent, isAbsent, isSettling, canDeposit, canStartSettling,
        canSettle, canClaim, Deleted, CanPay, Pay, Delete,
        governance, money

LEMMA LegacyInit == Init => Legacy!Init
BY DEF Init, Legacy!Init

\* A settlement is the old contract's when its payee is frugal.
LEMMA LegacySettle ==
  ASSUME NEW id \in Id, settle(id)
  PROVE  Legacy!Next \/ PaysBeyondTransfer
<1>1. CASE channels[id].sender \in Frugal
  BY <1>1 DEF settle, Legacy!Next, Legacy!settle
<1>2. CASE channels[id].sender \notin Frugal
  <2>1. Generous!settle(id)
    BY DEF settle, Generous!settle
  <2> QED BY <1>2, <2>1 DEF PaysBeyondTransfer
<1> QED BY <1>1, <1>2

\* A claim is the old contract's when all whom it pays are frugal.
LEMMA LegacyClaim ==
  ASSUME NEW caller \in Account, NEW id \in Id, NEW payment \in Promise,
         NEW signer \in Account, claim(caller, id, payment, signer)
  PROVE  Legacy!Next \/ PaysBeyondTransfer
<1> DEFINE Beyond == \/ channels[id].receiver \notin Frugal
                     \/ payment < channels[id].value /\ channels[id].sender \notin Frugal
<1>1. caller = channels[id].receiver
  BY DEF claim
<1>2. CASE Beyond
  <2>1. Generous!claim(caller, id, payment)
    BY DEF claim, Generous!claim
  <2> QED BY <1>1, <1>2, <2>1 DEF PaysBeyondTransfer
<1>3. CASE ~Beyond
  <2>1. Legacy!claim(caller, id, payment)
    BY <1>3 DEF claim, Legacy!claim
  <2> QED BY <2>1 DEF Legacy!Next
<1> QED BY <1>2, <1>3

LEMMA LegacyStep == Next => \/ Legacy!Next \/ PaysBeyondTransfer
                            \/ UNCHANGED Legacy!vars
<1> SUFFICES ASSUME Next
             PROVE  Legacy!Next \/ PaysBeyondTransfer \/ UNCHANGED Legacy!vars
  OBVIOUS
<1>1. CASE Opens
  <2>1. PICK caller \in Account, id \in Id, receiver \in Address, value \in Value,
             settlingPeriod \in Period : open(caller, id, receiver, value, settlingPeriod)
    BY <1>1 DEF Opens
  <2> QED BY <2>1 DEF open, Legacy!Next, Legacy!open, Address
<1>2. CASE Deposits
  BY <1>2 DEF Deposits, deposit, Legacy!Next, Legacy!deposit
<1>3. CASE StartsSettling
  BY <1>3 DEF StartsSettling, startSettling, Legacy!Next, Legacy!startSettling
<1>4. CASE Settles
  BY <1>4, LegacySettle DEF Settles
<1>5. CASE Claims
  BY <1>5, LegacyClaim DEF Claims
<1>6. CASE Governs
  BY <1>6 DEF Governs, pause, unpause, transferOwnership, acceptOwnership,
              renounceOwnership, Legacy!vars
<1>7. CASE Signs
  BY <1>7 DEF Signs, Sign, Legacy!Next, Legacy!Sign
<1>8. CASE Mine
  BY <1>8 DEF Mine, Legacy!Next, Legacy!Mine
<1> QED BY <1>1, <1>2, <1>3, <1>4, <1>5, <1>6, <1>7, <1>8 DEF Next

(* For any accounts, amounts and periods, and any accounts that can do with *)
(* the gas of a transfer: whatever the upgradeable contract does to         *)
(* channels and money its predecessor would have done too, or would have    *)
(* done had its payees been left all the gas (_safeTransferETH of           *)
(* UnidirectionalUpgradeable.sol against transfer of Unidirectional.sol).   *)
THEOREM Compatible == Spec => ImplementsLegacy
<1>1. [Next]_vars => [Legacy!Next \/ PaysBeyondTransfer]_(Legacy!vars)
  BY LegacyStep DEF vars, Legacy!vars
<1> QED BY LegacyInit, <1>1, PTL DEF Spec, ImplementsLegacy
=============================================================================
