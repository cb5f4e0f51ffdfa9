----------------------- MODULE TokenUnidirectional_proofs -----------------------
(***************************************************************************)
(* Proofs about the token channel contract, for any sets of tokens,        *)
(* channels, accounts, amounts and periods and any uint256 bound.          *)
(*                                                                         *)
(* IInv, types and well-formed records, is inductive as it is for channels *)
(* in Ether.  What a transaction does to the money is stated once for all  *)
(* that pull (open, deposit) and once for all that pay out (settle,        *)
(* claim); the action properties follow from these and from IInv.          *)
(***************************************************************************)
EXTENDS TokenUnidirectional, Sums_proofs

IInv == TypeOK /\ WellFormed

LEMMA DeletedType == Deleted \in PaymentChannel /\ Deleted.sender = Zero
                       /\ Deleted.settlingUntil = 0
BY DEF Deleted, PaymentChannel, Address

LEMMA InitIInv == Init => IInv
<1> SUFFICES ASSUME Init
             PROVE  IInv
  OBVIOUS
<1>1. TokenTypeOK
  BY TokenAssumption DEF Init, TokenInit, TokenTypeOK, Holder
<1>2. TypeOK
  BY <1>1, DeletedType, TokenAssumption, RangeAssumption DEF Init, TypeOK, Address
<1>3. WellFormed
  BY DeletedType DEF Init, WellFormed, ChannelWellFormed, isAbsent, isPresent,
     isSettling, isOpen
<1> QED BY <1>2, <1>3 DEF IInv

-----------------------------------------------------------------------------
(* The tokens. *)

LEMMA PullType ==
  ASSUME TokenTypeOK, NEW token \in Token, NEW from \in Account, NEW amount \in Nat,
         CanPull(token, from, amount), Pull(token, from, amount), UNCHANGED roles
  PROVE  TokenTypeOK'
<1>1. from # This /\ This \in Holder /\ from \in Holder
  BY TokenAssumption DEF Holder
<1>2. /\ held[token][from] - amount \in Nat
      /\ held[token][This] + amount \in Nat
      /\ allowance[token][from] - amount \in Nat
  BY <1>1 DEF TokenTypeOK, CanPull
<1>3. held' \in [Token -> [Holder -> Nat]]
  BY <1>1, <1>2 DEF Pull, TokenTypeOK
<1>4. allowance' \in [Token -> [Account -> Nat]]
  BY <1>2 DEF Pull, TokenTypeOK
<1> QED BY <1>3, <1>4 DEF TokenTypeOK, roles

LEMMA PushType ==
  ASSUME NEW purse \in [Holder -> Nat], NEW to \in Account, NEW amount \in Nat,
         amount <= purse[This]
  PROVE  /\ Push(to, amount, purse) \in [Holder -> Nat]
         /\ Push(to, amount, purse)[This] = purse[This] - amount
         /\ Push(to, amount, purse)[to] = purse[to] + amount
         /\ \A other \in Holder \ {This, to} : Push(to, amount, purse)[other] = purse[other]
<1>1. to # This /\ to \in Holder /\ This \in Holder
  BY TokenAssumption DEF Holder
<1>2. /\ purse[This] - amount \in Nat
      /\ purse[to] + amount \in Nat
  BY <1>1
<1> QED BY <1>1, <1>2 DEF Push

LEMMA ApproveMintIInv ==
  ASSUME IInv, Approves \/ Mints
  PROVE  IInv'
<1>1. TokenTypeOK'
  <2>1. CASE Approves
    BY <2>1, RangeAssumption DEF Approves, approve, IInv, TypeOK, TokenTypeOK, roles
  <2>2. CASE Mints
    <3>1. PICK caller \in Account, token \in Token :
            \/ \E to \in Holder, amount \in Value : mint(caller, token, to, amount)
            \/ finishMinting(caller, token)
            \/ \E account \in Account : addMinter(caller, token, account)
            \/ renounceMinter(caller, token)
      BY <2>2 DEF Mints
    <3>2. TokenTypeOK
      BY DEF IInv, TypeOK
    <3>3. ASSUME NEW to \in Holder, NEW amount \in Value, mint(caller, token, to, amount)
          PROVE  TokenTypeOK'
      <4>1. amount \in Nat
        BY RangeAssumption
      <4> QED BY <3>2, <3>3, <4>1 DEF mint, TokenTypeOK
    <3>4. CASE finishMinting(caller, token)
      BY <3>2, <3>4 DEF finishMinting, TokenTypeOK, funds
    <3>5. ASSUME NEW account \in Account, addMinter(caller, token, account)
          PROVE  TokenTypeOK'
      BY <3>2, <3>5 DEF addMinter, TokenTypeOK, funds
    <3>6. CASE renounceMinter(caller, token)
      BY <3>2, <3>6 DEF renounceMinter, TokenTypeOK, funds
    <3> QED BY <3>1, <3>3, <3>4, <3>5, <3>6
  <2> QED BY <2>1, <2>2
<1>2. UNCHANGED contract
  BY DEF Approves, Mints
<1> QED BY <1>1, <1>2 DEF IInv, TypeOK, WellFormed, ChannelWellFormed, isAbsent,
     isPresent, isSettling, isOpen, contract

-----------------------------------------------------------------------------
(* The channels. *)

LEMMA OpenIInv ==
  ASSUME IInv, NEW caller \in Account, NEW id \in Id, NEW receiver \in Address,
         NEW settlingPeriod \in Period, NEW token \in Token \cup {Zero}, NEW value \in Value,
         open(caller, id, receiver, settlingPeriod, token, value)
  PROVE  IInv'
<1>1. value \in Nat /\ settlingPeriod \in Nat /\ token \in Token
  BY RangeAssumption DEF open, mayOpen
<1>2. TokenTypeOK'
  BY <1>1, PullType DEF IInv, TypeOK, open, mayOpen
<1>3. TypeOK'
  BY <1>1, <1>2 DEF IInv, TypeOK, open, PaymentChannel, Address
<1>4. WellFormed'
  BY <1>1, ZeroAssumption DEF IInv, TypeOK, WellFormed, ChannelWellFormed, open, mayOpen,
     isAbsent, isPresent, isSettling, isOpen, Address
<1> QED BY <1>3, <1>4 DEF IInv

LEMMA DepositIInv ==
  ASSUME IInv, NEW caller \in Account, NEW id \in Id, NEW value \in Value,
         deposit(caller, id, value)
  PROVE  IInv'
<1>1. value \in Nat
  BY RangeAssumption
<1>2. channels[id].tokenContract \in Token
  BY DEF IInv, TypeOK, WellFormed, ChannelWellFormed, PaymentChannel, deposit, mayDeposit,
     canDeposit, isOpen
<1>3. TokenTypeOK'
  BY <1>1, <1>2, PullType DEF IInv, TypeOK, deposit, mayDeposit
<1>4. TypeOK'
  BY <1>1, <1>3 DEF IInv, TypeOK, deposit, PaymentChannel
<1>5. WellFormed'
  BY <1>1, ZeroAssumption DEF IInv, TypeOK, WellFormed, ChannelWellFormed, PaymentChannel,
     Deleted, deposit, mayDeposit, canDeposit, isAbsent, isPresent, isSettling, isOpen
<1> QED BY <1>4, <1>5 DEF IInv

LEMMA StartSettlingIInv ==
  ASSUME IInv, NEW caller \in Account, NEW id \in Id, startSettling(caller, id)
  PROVE  IInv'
<1>1. TypeOK'
  <2>1. channels[id].settlingPeriod \in Nat /\ number \in Nat
    BY DEF IInv, TypeOK, PaymentChannel
  <2>2. channels' \in [Id -> PaymentChannel] /\ announced' \in [Id -> Nat]
    BY <2>1 DEF IInv, TypeOK, startSettling, PaymentChannel
  <2>3. TokenTypeOK'
    BY DEF IInv, TypeOK, TokenTypeOK, startSettling, tokens, funds, roles
  <2> QED BY <2>2, <2>3 DEF IInv, TypeOK, startSettling
<1>2. WellFormed'
  BY ZeroAssumption DEF IInv, TypeOK, WellFormed, ChannelWellFormed, PaymentChannel, Deleted,
     startSettling, mayStartSettling, canStartSettling, isAbsent, isPresent, isSettling, isOpen
<1> QED BY <1>1, <1>2 DEF IInv

\* What settle and claim pay: share to the receiver, the rest to the sender.
PaysOut(id, share) ==
  LET channel == channels[id]
      token == channel.tokenContract
      paid(account) == (IF account = channel.receiver THEN share ELSE 0)
                         + (IF account = channel.sender THEN channel.value - share ELSE 0)
  IN /\ Delete(id)
     /\ isPresent(id)
     /\ token \in Token
     /\ share \in 0 .. channel.value
     /\ held' \in [Token -> [Holder -> Nat]]
     /\ \A other \in Token \ {token} : held'[other] = held[other]
     /\ held'[token][This] = held[token][This] - channel.value
     /\ \A account \in Account : held'[token][account] = held[token][account] + paid(account)

LEMMA PresentChannel ==
  ASSUME IInv, NEW id \in Id, isPresent(id)
  PROVE  /\ channels[id].sender \in Account
         /\ channels[id].receiver \in Account
         /\ channels[id].value \in Nat
         /\ channels[id].settlingPeriod \in Nat
         /\ channels[id].tokenContract \in Token
BY DEF IInv, TypeOK, WellFormed, ChannelWellFormed, PaymentChannel, Address, isPresent, isAbsent

LEMMA SettlePaysOut ==
  ASSUME IInv, NEW id \in Id, settle(id)
  PROVE  PaysOut(id, 0)
<1> DEFINE channel == channels[id]
           token == channel.tokenContract
           purse == Push(channel.sender, channel.value, held[token])
<1>1. /\ channel.sender \in Account /\ channel.value \in Nat /\ token \in Token
      /\ isPresent(id) /\ Delete(id)
  BY PresentChannel DEF settle, maySettle
<1>2. /\ held \in [Token -> [Holder -> Nat]]
      /\ channel.value <= held[token][This]
  BY DEF IInv, TypeOK, TokenTypeOK, settle, maySettle, CanPush
<1>3. held' = [held EXCEPT ![token] = purse]
  BY <1>1, <1>2 DEF settle
<1>4. /\ purse \in [Holder -> Nat]
      /\ purse[This] = held[token][This] - channel.value
      /\ purse[channel.sender] = held[token][channel.sender] + channel.value
      /\ \A other \in Holder \ {This, channel.sender} : purse[other] = held[token][other]
  BY <1>1, <1>2, PushType
<1> HIDE DEF purse
<1>5. held' \in [Token -> [Holder -> Nat]]
  BY <1>2, <1>3, <1>4
<1>6. held'[token] = purse /\ \A other \in Token \ {token} : held'[other] = held[other]
  BY <1>1, <1>2, <1>3
<1>7. ASSUME NEW account \in Account
      PROVE  held'[token][account]
               = held[token][account]
                   + ((IF account = channel.receiver THEN 0 ELSE 0)
                        + (IF account = channel.sender THEN channel.value - 0 ELSE 0))
  <2>1. held[token][account] \in Nat /\ account \in Holder \ {This}
    BY <1>1, <1>2, TokenAssumption DEF Holder
  <2> QED BY <1>1, <1>4, <1>6, <2>1
<1> QED BY <1>1, <1>4, <1>5, <1>6, <1>7 DEF PaysOut

LEMMA ClaimPaysOut ==
  ASSUME IInv, NEW caller \in Account, NEW id \in Id, NEW payment \in Promise,
         claim(caller, id, payment)
  PROVE  PaysOut(id, IF payment >= channels[id].value THEN channels[id].value ELSE payment)
<1> DEFINE channel == channels[id]
           token == channel.tokenContract
           share == IF payment >= channel.value THEN channel.value ELSE payment
           first == Push(channel.receiver, share, held[token])
           purse == Push(channel.sender, channel.value - share, first)
<1>1. /\ channel.sender \in Account /\ channel.receiver \in Account
      /\ channel.value \in Nat /\ token \in Token
      /\ isPresent(id) /\ Delete(id)
  BY PresentChannel DEF claim, mayClaim, canClaim
<1>2. /\ held \in [Token -> [Holder -> Nat]]
      /\ channel.value <= held[token][This]
  BY DEF IInv, TypeOK, TokenTypeOK, claim, mayClaim, CanPush
<1>3. share \in 0 .. channel.value
  BY <1>1, RangeAssumption
<1>4. held' = [held EXCEPT ![token] = purse]
  BY <1>1, <1>2 DEF claim
<1> HIDE DEF share
<1>5. held[token] \in [Holder -> Nat] /\ share <= held[token][This] /\ share \in Nat
  <2>1. held[token] \in [Holder -> Nat] /\ held[token][This] \in Nat
    BY <1>1, <1>2 DEF Holder
  <2> HIDE DEF channel
  <2> QED BY <1>1, <1>2, <1>3, <2>1
<1>6. /\ first \in [Holder -> Nat]
      /\ first[This] = held[token][This] - share
      /\ first[channel.receiver] = held[token][channel.receiver] + share
      /\ \A other \in Holder \ {This, channel.receiver} : first[other] = held[token][other]
  BY <1>1, <1>5, PushType
<1> HIDE DEF first
<1>7. channel.value - share \in Nat /\ channel.value - share <= first[This]
  BY <1>1, <1>2, <1>3, <1>5, <1>6 DEF Holder
<1>8. /\ purse \in [Holder -> Nat]
      /\ purse[This] = first[This] - (channel.value - share)
      /\ purse[channel.sender] = first[channel.sender] + (channel.value - share)
      /\ \A other \in Holder \ {This, channel.sender} : purse[other] = first[other]
  BY <1>1, <1>6, <1>7, PushType
<1> HIDE DEF purse
<1>9. /\ held' \in [Token -> [Holder -> Nat]]
      /\ held'[token] = purse
      /\ \A other \in Token \ {token} : held'[other] = held[other]
  BY <1>1, <1>2, <1>4, <1>8
<1>10. held'[token][This] = held[token][This] - channel.value
  <2>1. /\ purse[This] = first[This] - (channel.value - share)
        /\ first[This] = held[token][This] - share /\ held'[token] = purse
    BY <1>6, <1>8, <1>9
  <2>2. share \in Nat /\ channel.value \in Nat /\ held[token][This] \in Nat
    BY <1>1, <1>2, <1>5 DEF Holder
  <2> QED BY <2>1, <2>2
<1>11. ASSUME NEW account \in Account
       PROVE  held'[token][account]
                = held[token][account]
                    + ((IF account = channel.receiver THEN share ELSE 0)
                         + (IF account = channel.sender THEN channel.value - share ELSE 0))
  <2>1. held[token][account] \in Nat /\ account \in Holder \ {This}
    BY <1>5, TokenAssumption DEF Holder
  <2>2. first[account] = held[token][account] + (IF account = channel.receiver THEN share ELSE 0)
    BY <1>5, <1>6, <2>1
  <2>3. purse[account] = first[account]
                           + (IF account = channel.sender THEN channel.value - share ELSE 0)
    BY <1>6, <1>7, <1>8, <2>1
  <2> QED BY <1>5, <1>7, <1>9, <2>1, <2>2, <2>3
<1>12. PaysOut(id, share)
  BY <1>1, <1>3, <1>9, <1>10, <1>11 DEF PaysOut
<1> QED BY <1>12 DEF share

LEMMA PaysOutIInv ==
  ASSUME IInv, NEW id \in Id, NEW share, PaysOut(id, share)
  PROVE  IInv'
<1>1. /\ channels' \in [Id -> PaymentChannel]
      /\ announced' \in [Id -> Nat]
  BY DeletedType DEF PaysOut, Delete, IInv, TypeOK
<1>2. WellFormed'
  BY DeletedType DEF PaysOut, Delete, IInv, TypeOK, WellFormed, ChannelWellFormed,
     isAbsent, isPresent, isSettling, isOpen
<1>3. TokenTypeOK'
  BY DEF PaysOut, Delete, IInv, TypeOK, TokenTypeOK, roles
<1> QED BY <1>1, <1>2, <1>3 DEF PaysOut, Delete, IInv, TypeOK

LEMMA OthersIInv ==
  ASSUME IInv, Pauses \/ Signs \/ Mine
  PROVE  IInv'
<1>1. TokenTypeOK'
  BY DEF IInv, TypeOK, TokenTypeOK, Pauses, pause, unpause, Signs, Sign, Mine, tokens, funds,
     roles
<1>2. UNCHANGED <<channels, owner, announced>>
  BY DEF Pauses, pause, unpause, Signs, Sign, Mine
<1>3. paused' \in BOOLEAN
  BY DEF IInv, TypeOK, Pauses, pause, unpause, Signs, Sign, Mine
<1>4. signed' \subseteq PromiseOf
  BY DEF IInv, TypeOK, Pauses, pause, unpause, Signs, Sign, Mine, PromiseOf
<1>5. number' \in Nat /\ number' >= number
  BY DEF IInv, TypeOK, Pauses, pause, unpause, Signs, Sign, Mine
<1> QED BY <1>1, <1>2, <1>3, <1>4, <1>5 DEF IInv, TypeOK, WellFormed, ChannelWellFormed, isAbsent,
     isPresent, isSettling, isOpen

LEMMA NextIInv == IInv /\ [Next]_vars => IInv'
<1> SUFFICES ASSUME IInv, [Next]_vars
             PROVE  IInv'
  OBVIOUS
<1>1. CASE Approves \/ Mints
  BY <1>1, ApproveMintIInv
<1>2. CASE Opens
  BY <1>2, OpenIInv DEF Opens
<1>3. CASE Deposits
  BY <1>3, DepositIInv DEF Deposits
<1>4. CASE StartsSettling
  BY <1>4, StartSettlingIInv DEF StartsSettling
<1>5. CASE Settles
  BY <1>5, SettlePaysOut, PaysOutIInv DEF Settles
<1>6. CASE Claims
  BY <1>6, ClaimPaysOut, PaysOutIInv DEF Claims
<1>7. CASE Pauses \/ Signs \/ Mine
  BY <1>7, OthersIInv
<1>8. CASE UNCHANGED vars
  BY <1>8 DEF vars, tokens, contract, funds, roles, IInv, TypeOK, TokenTypeOK, WellFormed,
     ChannelWellFormed, isAbsent, isPresent, isSettling, isOpen
<1> QED BY <1>1, <1>2, <1>3, <1>4, <1>5, <1>6, <1>7, <1>8 DEF Next

(* Every reachable state of the token contract is well typed, and every     *)
(* channel record is deleted altogether or funded in a token, with its      *)
(* deadline one settling period after its announcement.                     *)
THEOREM TokenInvariance == Spec => [](TypeOK /\ WellFormed)
<1>1. Spec => []IInv
  BY InitIInv, NextIInv, PTL DEF Spec
<1> QED BY <1>1, PTL DEF IInv

-----------------------------------------------------------------------------
(* What the steps do. *)

\* What open and deposit take: amount of one token, from the caller.
PaysIn(id, caller, token, amount) ==
  /\ caller \in Account /\ token \in Token
  /\ amount \in Nat \ {0}
  /\ held \in [Token -> [Holder -> Nat]]
  /\ channels \in [Id -> PaymentChannel]
  /\ \A other \in Id \ {id} : channels'[other] = channels[other]
  /\ channels'[id].sender = caller
  /\ channels'[id].tokenContract = token
  /\ channels'[id].value = channels[id].value + amount
  /\ \/ channels[id].tokenContract = token
     \/ channels[id].tokenContract = Zero /\ channels[id].value = 0
  /\ \A t \in Token, h \in Holder :
       held'[t][h] = IF t # token THEN held[t][h]
                     ELSE IF h = caller THEN held[t][h] - amount
                     ELSE IF h = This THEN held[t][h] + amount ELSE held[t][h]
  /\ allowance'[token][caller] = allowance[token][caller] - amount

LEMMA PullMoves ==
  ASSUME TokenTypeOK, NEW token \in Token, NEW from \in Account, NEW amount \in Nat,
         Pull(token, from, amount)
  PROVE  /\ \A t \in Token, h \in Holder :
              held'[t][h] = IF t # token THEN held[t][h]
                            ELSE IF h = from THEN held[t][h] - amount
                            ELSE IF h = This THEN held[t][h] + amount ELSE held[t][h]
         /\ allowance'[token][from] = allowance[token][from] - amount
<1>1. from # This /\ This \in Holder /\ from \in Holder
  BY TokenAssumption DEF Holder
<1>2. ASSUME NEW t \in Token, NEW h \in Holder
      PROVE  held'[t][h] = IF t # token THEN held[t][h]
                           ELSE IF h = from THEN held[t][h] - amount
                           ELSE IF h = This THEN held[t][h] + amount ELSE held[t][h]
  BY <1>1 DEF Pull, TokenTypeOK
<1>3. allowance'[token][from] = allowance[token][from] - amount
  BY DEF Pull, TokenTypeOK
<1> QED BY <1>2, <1>3

LEMMA OpenPaysIn ==
  ASSUME IInv, NEW caller \in Account, NEW id \in Id, NEW receiver \in Address,
         NEW settlingPeriod \in Period, NEW token \in Token \cup {Zero}, NEW value \in Value,
         open(caller, id, receiver, settlingPeriod, token, value)
  PROVE  PaysIn(id, caller, token, value) /\ isAbsent(id)
<1>1. value \in Nat \ {0} /\ token \in Token /\ isAbsent(id) /\ TokenTypeOK
      /\ Pull(token, caller, value)
  BY RangeAssumption DEF open, mayOpen, IInv, TypeOK
<1>2. channels[id] = Deleted /\ channels \in [Id -> PaymentChannel]
  BY <1>1 DEF IInv, TypeOK, WellFormed, ChannelWellFormed
<1>3. channels[id].tokenContract = Zero /\ channels[id].value = 0
  BY <1>2 DEF Deleted
<1>4. /\ \A other \in Id \ {id} : channels'[other] = channels[other]
      /\ channels'[id].sender = caller
      /\ channels'[id].tokenContract = token
      /\ channels'[id].value = value
  BY <1>2 DEF open
<1> QED BY <1>1, <1>2, <1>3, <1>4, PullMoves DEF PaysIn, TokenTypeOK

LEMMA DepositPaysIn ==
  ASSUME IInv, NEW caller \in Account, NEW id \in Id, NEW value \in Value,
         deposit(caller, id, value)
  PROVE  PaysIn(id, caller, channels[id].tokenContract, value) /\ isOpen(id)
<1>1. value \in Nat \ {0} /\ isOpen(id) /\ channels[id].sender = caller /\ TokenTypeOK
  BY RangeAssumption DEF deposit, mayDeposit, canDeposit, IInv, TypeOK
<1>2. channels[id].tokenContract \in Token /\ channels[id].value \in Nat
  BY <1>1, PresentChannel DEF isOpen
<1>3. channels \in [Id -> PaymentChannel]
      /\ Pull(channels[id].tokenContract, caller, value)
  BY DEF IInv, TypeOK, deposit
<1>4. /\ \A other \in Id \ {id} : channels'[other] = channels[other]
      /\ channels'[id].sender = caller
      /\ channels'[id].tokenContract = channels[id].tokenContract
      /\ channels'[id].value = channels[id].value + value
  BY <1>1, <1>3 DEF deposit, PaymentChannel
<1> QED BY <1>1, <1>2, <1>3, <1>4, PullMoves DEF PaysIn, TokenTypeOK

\* Every step pays into one channel, pays one out, or leaves the contract's
\* holdings and everybody's tokens at what they were or above.
KeepsMoney ==
  \A token \in Token, h \in Holder :
    held[token][h] \in Nat /\ held'[token][h] \in Nat /\ held'[token][h] >= held[token][h]

LEMMA ApproveMintKeepsMoney ==
  ASSUME IInv, Approves \/ Mints
  PROVE  KeepsMoney
<1>1. held \in [Token -> [Holder -> Nat]]
  BY DEF IInv, TypeOK, TokenTypeOK
<1>2. CASE UNCHANGED held
  BY <1>1, <1>2 DEF KeepsMoney
<1>3. ASSUME NEW caller \in Account, NEW token \in Token, NEW to \in Holder,
             NEW amount \in Value, mint(caller, token, to, amount)
      PROVE  KeepsMoney
  <2>1. amount \in Nat /\ held' = [held EXCEPT ![token][to] = @ + amount]
    BY <1>3, RangeAssumption DEF mint
  <2> QED BY <1>1, <2>1 DEF KeepsMoney
<1>4. Approves => UNCHANGED held
  BY DEF Approves, approve
<1>5. Mints => \/ UNCHANGED held
               \/ \E caller \in Account, token \in Token, to \in Holder, amount \in Value :
                    mint(caller, token, to, amount)
  BY DEF Mints, finishMinting, addMinter, renounceMinter, funds
<1> QED BY <1>2, <1>3, <1>4, <1>5

LEMMA QuietStep ==
  ASSUME IInv, Pauses \/ Signs \/ Mine \/ UNCHANGED vars
  PROVE  UNCHANGED <<channels, announced>> /\ KeepsMoney
<1>1. UNCHANGED <<channels, announced, held>>
  BY DEF Pauses, pause, unpause, Signs, Sign, Mine, vars, contract, tokens, funds
<1>2. held \in [Token -> [Holder -> Nat]]
  BY DEF IInv, TypeOK, TokenTypeOK
<1> QED BY <1>1, <1>2 DEF KeepsMoney

-----------------------------------------------------------------------------
(* The action properties. *)

LEMMA PaysOutBalanced ==
  ASSUME IInv, NEW id \in Id, NEW share, PaysOut(id, share)
  PROVE  BalancedStep
<1>1. /\ channels \in [Id -> PaymentChannel] /\ channels' = [channels EXCEPT ![id] = Deleted]
      /\ channels[id].tokenContract \in Token /\ channels[id].value \in Nat
      /\ held \in [Token -> [Holder -> Nat]] /\ This \in Holder
  BY PresentChannel DEF IInv, TypeOK, TokenTypeOK, PaysOut, Delete, Holder
<1>2. channels'[id].value = 0 /\ \A other \in Id \ {id} : channels'[other] = channels[other]
  BY <1>1 DEF Deleted
<1>3. ASSUME NEW token \in Token
      PROVE  held'[token][This] - held[token][This] = Stake(id, token)' - Stake(id, token)
  <2>1. Stake(id, token)' = 0
    BY <1>2 DEF Stake
  <2>2. held[token][This] \in Nat
    BY <1>1
  <2>3. CASE token = channels[id].tokenContract
    BY <1>1, <2>1, <2>2, <2>3 DEF PaysOut, Stake
  <2>4. CASE token # channels[id].tokenContract
    BY <1>1, <2>1, <2>2, <2>4 DEF PaysOut, Stake
  <2> QED BY <2>3, <2>4
<1> QED BY <1>2, <1>3 DEF BalancedStep

LEMMA PaysInBalanced ==
  ASSUME NEW id \in Id, NEW caller, NEW token, NEW amount, PaysIn(id, caller, token, amount)
  PROVE  BalancedStep
<1>1. channels[id].value \in Nat /\ This \in Holder /\ caller # This
  BY TokenAssumption DEF PaysIn, PaymentChannel, Holder
<1>2. ASSUME NEW t \in Token
      PROVE  held'[t][This] - held[t][This] = Stake(id, t)' - Stake(id, t)
  <2>1. held[t][This] \in Nat /\ Zero \notin Token
    BY <1>1, ZeroAssumption DEF PaysIn
  <2>2. held'[t][This] = IF t = token THEN held[t][This] + amount ELSE held[t][This]
    BY <1>1 DEF PaysIn
  <2>3. Stake(id, t)' = IF t = token THEN channels[id].value + amount ELSE 0
    BY DEF PaysIn, Stake
  <2>4. Stake(id, t) = IF t = token THEN channels[id].value ELSE 0
    BY <2>1 DEF PaysIn, Stake
  <2> QED BY <1>1, <2>1, <2>2, <2>3, <2>4 DEF PaysIn
<1> QED BY <1>2 DEF PaysIn, BalancedStep

LEMMA NextBalanced == IInv /\ [Next]_vars => [BalancedStep]_vars
<1> SUFFICES ASSUME IInv, Next
             PROVE  BalancedStep
  OBVIOUS
<1>1. CASE Opens
  BY <1>1, OpenPaysIn, PaysInBalanced DEF Opens
<1>2. CASE Deposits
  BY <1>2, DepositPaysIn, PaysInBalanced DEF Deposits
<1>3. CASE StartsSettling
  <2>1. PICK caller \in Account, id \in Id : startSettling(caller, id)
    BY <1>3 DEF StartsSettling
  <2>2. channels \in [Id -> PaymentChannel] /\ held \in [Token -> [Holder -> Nat]]
        /\ This \in Holder
    BY DEF IInv, TypeOK, TokenTypeOK, Holder
  <2>3. /\ \A other \in Id \ {id} : channels'[other] = channels[other]
        /\ channels'[id].tokenContract = channels[id].tokenContract
        /\ channels'[id].value = channels[id].value
        /\ held' = held
    BY <2>1, <2>2 DEF startSettling, PaymentChannel, tokens, funds
  <2>4. channels[id].value \in Nat
    BY <2>2 DEF PaymentChannel
  <2>5. ASSUME NEW token \in Token
        PROVE  held'[token][This] - held[token][This] = Stake(id, token)' - Stake(id, token)
    BY <2>2, <2>3, <2>4 DEF Stake
  <2> QED BY <2>3, <2>5 DEF BalancedStep
<1>4. CASE Settles
  BY <1>4, SettlePaysOut, PaysOutBalanced DEF Settles
<1>5. CASE Claims
  BY <1>5, ClaimPaysOut, PaysOutBalanced DEF Claims
<1>6. CASE Approves \/ Mints
  <2>1. channels' = channels
    BY <1>6 DEF Approves, Mints, contract
  <2> QED BY <1>6, <2>1, ApproveMintKeepsMoney DEF BalancedStep, KeepsMoney, Holder
<1>7. CASE Pauses \/ Signs \/ Mine
  BY <1>7, QuietStep DEF BalancedStep, KeepsMoney, Holder
<1> QED BY <1>1, <1>2, <1>3, <1>4, <1>5, <1>6, <1>7 DEF Next

(* What the contract holds of each token follows the values of the channels *)
(* in that token step by step.                                              *)
THEOREM EveryTokenStepBalances == Spec => StepsBalance
<1>1. Spec => []IInv
  BY InitIInv, NextIInv, PTL DEF Spec
<1> QED BY <1>1, NextBalanced, PTL DEF Spec, StepsBalance

-----------------------------------------------------------------------------
(* Solvency: the steps add up, as there are only so many channel ids.       *)

Owed(token) == Sum([id \in Id |-> Stake(id, token)], Id)
HoldsWhatItOwes == \A token \in Token : held[token][This] >= Owed(token)
Funded == \A id \in Id : isPresent(id) =>
            CanPush(channels[id].tokenContract, channels[id].value)

LEMMA StepOwed ==
  ASSUME IsFiniteSet(Id), IInv, IInv', BalancedStep, NEW token \in Token,
         held[token][This] >= Owed(token)
  PROVE  held'[token][This] >= Owed(token)'
<1> DEFINE old == [id \in Id |-> Stake(id, token)]
           new == [id \in Id |-> Stake(id, token)']
<1>1. held[token][This] \in Int /\ held'[token][This] \in Int
  BY DEF IInv, TypeOK, TokenTypeOK, Holder
<1>2. \A id \in Id : old[id] \in Int /\ new[id] \in Int
  BY DEF IInv, TypeOK, PaymentChannel, Stake
<1>3. Owed(token) = Sum(old, Id) /\ Owed(token)' = Sum(new, Id)
  BY DEF Owed
<1>4. Sum(old, Id) \in Int
  BY <1>2, SumType
<1>5. CASE UNCHANGED channels /\ held'[token][This] >= held[token][This]
  <2>1. Owed(token)' = Owed(token)
    BY <1>5 DEF Owed, Stake
  <2> QED BY <1>1, <1>3, <1>4, <1>5, <2>1
<1>6. ASSUME NEW id \in Id, \A other \in Id \ {id} : channels'[other] = channels[other],
             held'[token][This] - held[token][This] = new[id] - old[id]
      PROVE  held'[token][This] >= Owed(token)'
  <2>1. \A other \in Id \ {id} : old[other] = new[other]
    BY <1>6 DEF Stake
  <2> HIDE DEF old, new
  <2>2. Sum(new, Id) = Sum(old, Id) - old[id] + new[id]
    BY <1>2, <2>1, SumChanges
  <2> QED BY <1>1, <1>2, <1>3, <1>4, <1>6, <2>2
<1> QED BY <1>5, <1>6 DEF BalancedStep

(* Of every token the contract holds at least what its channels in that     *)
(* token are worth, so each of them can be paid out, and settle and claim   *)
(* never fail for lack of tokens: no order of openings, deposits, claims    *)
(* and settlements, in whatever tokens, pays a channel from another's.      *)
THEOREM ChannelsAreFunded ==
  ASSUME IsFiniteSet(Id)
  PROVE  Spec => [](HoldsWhatItOwes /\ Funded)
<1>1. Init => HoldsWhatItOwes
  <2> SUFFICES ASSUME Init, NEW token \in Token PROVE held[token][This] >= Owed(token)
    BY DEF HoldsWhatItOwes
  <2> DEFINE stakes == [id \in Id |-> Stake(id, token)]
  <2>1. \A id \in Id : stakes[id] = 0
    BY DEF Init, Deleted, Stake
  <2> HIDE DEF stakes
  <2>2. Sum(stakes, Id) = 0
    BY <2>1, SumOfZeros
  <2> QED BY <2>2 DEF Init, TokenInit, Holder, Owed, stakes
<1>2. IInv /\ IInv' /\ HoldsWhatItOwes /\ [Next]_vars => HoldsWhatItOwes'
  <2>1. UNCHANGED vars => UNCHANGED channels /\ UNCHANGED held
    BY DEF vars, tokens, funds, contract
  <2>2. IInv /\ UNCHANGED vars => BalancedStep
    BY <2>1 DEF BalancedStep, IInv, TypeOK, TokenTypeOK, Holder
  <2> QED BY <2>2, NextBalanced, StepOwed DEF HoldsWhatItOwes
<1>3. IInv /\ HoldsWhatItOwes => Funded
  <2> SUFFICES ASSUME IInv, HoldsWhatItOwes, NEW id \in Id, isPresent(id)
               PROVE  CanPush(channels[id].tokenContract, channels[id].value)
    BY DEF Funded
  <2> DEFINE token == channels[id].tokenContract
             stakes == [x \in Id |-> Stake(x, token)]
  <2>1. token \in Token
    BY DEF IInv, TypeOK, PaymentChannel, WellFormed, ChannelWellFormed
  <2>2. \A x \in Id : stakes[x] \in Nat
    BY DEF IInv, TypeOK, PaymentChannel, Stake
  <2>3. stakes[id] = channels[id].value
    BY DEF Stake
  <2>4. Owed(token) = Sum(stakes, Id)
    BY DEF Owed
  <2> HIDE DEF stakes, token
  <2>5. Sum(stakes, Id) \in Nat /\ stakes[id] <= Sum(stakes, Id)
    BY <2>2, SumCovers
  <2>6. held[token][This] \in Nat /\ channels[id].value \in Nat
    BY <2>1 DEF IInv, TypeOK, TokenTypeOK, Holder, PaymentChannel
  <2> QED BY <2>1, <2>3, <2>4, <2>5, <2>6 DEF HoldsWhatItOwes, CanPush, token
<1>4. Spec => []IInv
  BY InitIInv, NextIInv, PTL DEF Spec
<1> QED BY <1>1, <1>2, <1>3, <1>4, PTL DEF Spec

\* The body of PullsAreConsented.
Consented ==
  \A token \in Token, account \in Account :
    held'[token][account] < held[token][account]
      => \E id \in Id : TakenInto(id, account, token)

LEMMA PaysInConsented ==
  ASSUME NEW id \in Id, NEW caller, NEW token, NEW amount, PaysIn(id, caller, token, amount)
  PROVE  Consented
<1> SUFFICES ASSUME NEW t \in Token, NEW account \in Account,
                    held'[t][account] < held[t][account]
             PROVE  TakenInto(id, account, t)
  BY DEF Consented
<1>1. account \in Holder /\ account # This /\ held[t][account] \in Nat
  BY TokenAssumption DEF Holder, PaysIn
<1>2. t = token /\ account = caller /\ held'[t][account] = held[t][account] - amount
  BY <1>1 DEF PaysIn
<1>3. held[t][account] - held'[t][account] = amount
  BY <1>1, <1>2 DEF PaysIn
<1>4. channels[id].value \in Nat /\ Zero \notin Token
  BY ZeroAssumption DEF PaysIn, PaymentChannel
<1>5. Stake(id, token) = channels[id].value
  BY <1>4 DEF PaysIn, Stake
<1> QED BY <1>2, <1>3, <1>5 DEF PaysIn, TakenInto

LEMMA PaysOutConsented ==
  ASSUME IInv, NEW id \in Id, NEW share, PaysOut(id, share)
  PROVE  Consented
<1>1. /\ held \in [Token -> [Holder -> Nat]]
      /\ channels[id].value \in Nat /\ channels[id].tokenContract \in Token
  BY PresentChannel DEF PaysOut, IInv, TypeOK, TokenTypeOK
<1>2. share \in Nat /\ channels[id].value - share \in Nat
  BY <1>1 DEF PaysOut
<1>3. ASSUME NEW token \in Token, NEW account \in Account
      PROVE  ~(held'[token][account] < held[token][account])
  <2>1. held[token][account] \in Nat
    BY <1>1 DEF Holder
  <2>2. CASE token = channels[id].tokenContract
    BY <1>2, <2>1, <2>2 DEF PaysOut
  <2>3. CASE token # channels[id].tokenContract
    BY <2>1, <2>3 DEF PaysOut
  <2> QED BY <2>2, <2>3
<1> QED BY <1>3 DEF Consented

LEMMA KeptConsented == KeepsMoney => Consented
BY DEF KeepsMoney, Consented, Holder

LEMMA NextConsented == IInv /\ [Next]_vars => [Consented]_vars
<1> SUFFICES ASSUME IInv, Next
             PROVE  Consented
  OBVIOUS
<1>1. CASE Opens
  BY <1>1, OpenPaysIn, PaysInConsented DEF Opens
<1>2. CASE Deposits
  BY <1>2, DepositPaysIn, PaysInConsented DEF Deposits
<1>3. CASE StartsSettling
  <2>1. held' = held /\ held \in [Token -> [Holder -> Nat]]
    BY <1>3 DEF StartsSettling, startSettling, tokens, funds, IInv, TypeOK, TokenTypeOK
  <2> QED BY <2>1 DEF Consented, Holder
<1>4. CASE Settles
  BY <1>4, SettlePaysOut, PaysOutConsented DEF Settles
<1>5. CASE Claims
  BY <1>5, ClaimPaysOut, PaysOutConsented DEF Claims
<1>6. CASE Approves \/ Mints
  BY <1>6, ApproveMintKeepsMoney, KeptConsented
<1>7. CASE Pauses \/ Signs \/ Mine
  BY <1>7, QuietStep, KeptConsented
<1> QED BY <1>1, <1>2, <1>3, <1>4, <1>5, <1>6, <1>7 DEF Next

(* An account's tokens leave it only into a channel it is the sender of,    *)
(* within its allowance, and count in full as that channel's value.         *)
THEOREM Consent == Spec => PullsAreConsented
<1>1. Spec => []IInv
  BY InitIInv, NextIInv, PTL DEF Spec
<1>2. Consented <=> \A token \in Token, account \in Account :
        held'[token][account] < held[token][account]
          => \E id \in Id : TakenInto(id, account, token)
  BY DEF Consented
<1> QED BY <1>1, <1>2, NextConsented, PTL DEF Spec, PullsAreConsented

LEMMA PaysOutSplits ==
  ASSUME IInv, NEW id \in Id, NEW share, PaysOut(id, share), NEW amount \in Nat,
         share = IF amount < channels[id].value THEN amount ELSE channels[id].value
  PROVE  Splits(id, amount)
<1>1. /\ held \in [Token -> [Holder -> Nat]]
      /\ channels[id].value \in Nat /\ channels[id].tokenContract \in Token
  BY PresentChannel DEF PaysOut, IInv, TypeOK, TokenTypeOK
<1>2. share \in Nat /\ channels[id].value - share \in Nat
  BY <1>1 DEF PaysOut
<1>3. ASSUME NEW account \in Account, NEW token \in Token
      PROVE  Gain(token, account) =
               (IF account = channels[id].receiver /\ token = channels[id].tokenContract
                THEN share ELSE 0)
                 + (IF account = channels[id].sender /\ token = channels[id].tokenContract
                    THEN channels[id].value - share ELSE 0)
  <2>1. held[token][account] \in Nat
    BY <1>1 DEF Holder
  <2>2. CASE token = channels[id].tokenContract
    <3> DEFINE first == IF account = channels[id].receiver THEN share ELSE 0
               rest == IF account = channels[id].sender THEN channels[id].value - share ELSE 0
    <3>1. held'[token][account] = held[token][account] + (first + rest)
      BY <2>2 DEF PaysOut
    <3>2. first \in Nat /\ rest \in Nat
      BY <1>2
    <3>3. Gain(token, account) = first + rest
      <4> HIDE DEF first, rest
      <4> QED BY <2>1, <3>1, <3>2 DEF Gain
    <3> QED BY <2>2, <3>3
  <2>3. CASE token # channels[id].tokenContract
    BY <2>1, <2>3 DEF PaysOut, Gain
  <2> QED BY <2>2, <2>3
<1> QED BY <1>3 DEF Splits

\* Only a payment out ends a channel.
LEMMA PaysOutEnds ==
  ASSUME IInv, NEW id \in Id, NEW j \in Id, NEW share, PaysOut(j, share), Ends(id)
  PROVE  j = id
BY DEF PaysOut, Delete, Ends, isPresent, isAbsent, IInv, TypeOK

LEMMA PaysInEndsNone ==
  ASSUME NEW id \in Id, NEW j \in Id, NEW caller, NEW token, NEW amount,
         PaysIn(j, caller, token, amount)
  PROVE  ~Ends(id)
BY ZeroAssumption DEF PaysIn, Ends, isPresent, isAbsent

LEMMA NextFairEnd == IInv /\ [Next]_vars => [\A id \in Id : FairEnd(id)]_vars
<1> SUFFICES ASSUME IInv, Next, NEW id \in Id, Ends(id)
             PROVE  \/ PeriodElapsed(id) /\ Splits(id, 0)
                    \/ \E promise \in signed :
                         /\ promise.signer = channels[id].sender
                         /\ promise.id = id
                         /\ promise.token = channels[id].tokenContract
                         /\ Splits(id, promise.amount)
  BY DEF FairEnd
<1>1. CASE Opens
  BY <1>1, OpenPaysIn, PaysInEndsNone DEF Opens
<1>2. CASE Deposits
  BY <1>2, DepositPaysIn, PaysInEndsNone DEF Deposits
<1>3. CASE StartsSettling
  <2>1. channels'[id].sender = channels[id].sender
    BY <1>3 DEF StartsSettling, startSettling, IInv, TypeOK, PaymentChannel
  <2> QED BY <2>1 DEF Ends, isPresent, isAbsent
<1>4. CASE Settles
  <2>1. PICK j \in Id : settle(j)
    BY <1>4 DEF Settles
  <2>2. PaysOut(j, 0)
    BY <2>1, SettlePaysOut
  <2>3. j = id
    BY <2>2, PaysOutEnds
  <2>4. channels[id].value \in Nat /\ channels[id].settlingPeriod \in Nat /\ number \in Nat
    BY <2>2, <2>3, PresentChannel DEF PaysOut, IInv, TypeOK
  <2>5. PeriodElapsed(id)
    BY <2>1, <2>3, <2>4 DEF settle, maySettle, canSettle, PeriodElapsed, isSettling, IInv,
       WellFormed, ChannelWellFormed
  <2>6. Splits(id, 0)
    BY <2>2, <2>3, <2>4, PaysOutSplits
  <2> QED BY <2>5, <2>6
<1>5. CASE Claims
  <2>1. PICK caller \in Account, j \in Id, payment \in Promise : claim(caller, j, payment)
    BY <1>5 DEF Claims
  <2> DEFINE share == IF payment >= channels[j].value THEN channels[j].value ELSE payment
             promise == [signer |-> channels[j].sender, id |-> j, amount |-> payment,
                         token |-> channels[j].tokenContract]
  <2>2. PaysOut(j, share)
    BY <2>1, ClaimPaysOut
  <2>3. j = id
    BY <2>2, PaysOutEnds
  <2>4. channels[id].value \in Nat /\ payment \in Nat
    BY <2>2, <2>3, PresentChannel, RangeAssumption DEF PaysOut
  <2>5. share = IF payment < channels[id].value THEN payment ELSE channels[id].value
    BY <2>3, <2>4
  <2>6. Splits(id, payment)
    BY <2>2, <2>3, <2>4, <2>5, PaysOutSplits
  <2>7. promise \in signed
    BY <2>1 DEF claim, mayClaim, canClaim
  <2> QED BY <2>3, <2>6, <2>7
<1>6. CASE Approves \/ Mints \/ Pauses \/ Signs \/ Mine
  <2>1. channels' = channels
    BY <1>6 DEF Approves, Mints, contract, Pauses, pause, unpause, Signs, Sign, Mine
  <2> QED BY <2>1 DEF Ends, isPresent, isAbsent
<1> QED BY <1>1, <1>2, <1>3, <1>4, <1>5, <1>6 DEF Next

(* A channel in a token ends by a promise its sender signed for this id and *)
(* this token, or by a refund no earlier than one period after the          *)
(* announcement, and either way its whole value is paid out in its token.   *)
THEOREM FairTokenEnding == Spec => EndsFairly
<1>1. Spec => []IInv
  BY InitIInv, NextIInv, PTL DEF Spec
<1> QED BY <1>1, NextFairEnd, PTL DEF Spec, EndsFairly

LEMMA NextSameTerms == IInv /\ [Next]_vars => [\A id \in Id : SameTerms(id)]_vars
<1> SUFFICES ASSUME IInv, Next, NEW id \in Id, isPresent(id), isPresent(id)'
             PROVE  SameTerms(id)
  BY DEF SameTerms
<1>1. channels[id] \in PaymentChannel /\ channels \in [Id -> PaymentChannel]
  BY DEF IInv, TypeOK
<1>2. CASE channels'[id] = channels[id]
  BY <1>1, <1>2 DEF SameTerms, PaymentChannel
<1>3. CASE Opens
  <2>1. channels'[id] = channels[id]
    BY <1>1, <1>3 DEF Opens, open, mayOpen, isPresent
  <2> QED BY <2>1, <1>2
<1>4. CASE Deposits
  <2>1. PICK caller \in Account, j \in Id, value \in Value : deposit(caller, j, value)
    BY <1>4 DEF Deposits
  <2>2. value \in Nat /\ isOpen(j) /\ channels' = [channels EXCEPT ![j].value = @ + value]
    BY <2>1, RangeAssumption DEF deposit, mayDeposit, canDeposit
  <2>3. CASE j # id
    BY <1>1, <1>2, <2>2, <2>3
  <2>4. CASE j = id
    BY <1>1, <2>2, <2>4 DEF SameTerms, PaymentChannel, isOpen, isSettling
  <2> QED BY <2>3, <2>4
<1>5. CASE StartsSettling
  <2>1. PICK caller \in Account, j \in Id : startSettling(caller, j)
    BY <1>5 DEF StartsSettling
  <2>2. isOpen(j) /\ channels' = [channels EXCEPT ![j].settlingUntil =
                                                    number + channels[j].settlingPeriod]
    BY <2>1 DEF startSettling, mayStartSettling, canStartSettling
  <2>3. CASE j # id
    BY <1>1, <1>2, <2>2, <2>3
  <2>4. CASE j = id
    BY <1>1, <2>2, <2>4 DEF SameTerms, PaymentChannel, isOpen, isSettling
  <2> QED BY <2>3, <2>4
<1>6. CASE Settles \/ Claims
  <2>1. PICK j \in Id : channels' = [channels EXCEPT ![j] = Deleted]
    BY <1>6 DEF Settles, settle, Claims, claim, Delete
  <2>2. j # id
    BY <1>1, <2>1, DeletedType DEF isPresent, isAbsent
  <2> QED BY <1>1, <1>2, <2>1, <2>2
<1>7. CASE Approves \/ Mints \/ Pauses \/ Signs \/ Mine
  BY <1>2, <1>7 DEF Approves, Mints, contract, Pauses, pause, unpause, Signs, Sign, Mine
<1> QED BY <1>3, <1>4, <1>5, <1>6, <1>7 DEF Next

(* Nothing anyone calls worsens a living channel in a token for its         *)
(* receiver.                                                                *)
THEOREM TokenTermsAreKept == Spec => TermsHold
<1>1. Spec => []IInv
  BY InitIInv, NextIInv, PTL DEF Spec
<1> QED BY <1>1, NextSameTerms, PTL DEF Spec, TermsHold

-----------------------------------------------------------------------------
(* The upgradeable token contract implements the one it replaced, for the   *)
(* tokens of TestToken.  As for channels in Ether the checks of the old     *)
(* contract are among those of the new one, so no invariant is needed.      *)

USE DEF Legacy!isOpen, Legacy!isPresent, Legacy!isAbsent, Legacy!isSettling,
        Legacy!canDeposit, Legacy!canStartSettling, Legacy!canSettle,
        Legacy!canClaim, Legacy!Deleted, Legacy!paymentDigest, Legacy!Delete,
        isOpen, isPresent, isAbsent, isSettling, canDeposit, canStartSettling,
        canSettle, canClaim, Deleted, Delete,
        CanPull, Pull, CanPush, Push,
        Legacy!CanPull, Legacy!Pull, Legacy!CanPush, Legacy!Push,
        funds, roles, tokens, contract,
        Legacy!funds, Legacy!roles, Legacy!contract

LEMMA LegacyInit == Init => Legacy!Init
BY DEF Init, TokenInit, Holder, Legacy!Init, Legacy!TokenInit, Legacy!Holder

LEMMA LegacyStep == Next => Legacy!Next \/ UNCHANGED Legacy!vars
<1> SUFFICES ASSUME Next PROVE Legacy!Next \/ UNCHANGED Legacy!vars
  OBVIOUS
<1>1. CASE Approves
  BY <1>1 DEF Approves, approve, Legacy!Next, Legacy!TokenCalls, Legacy!approve
<1>2. CASE Mints
  <2>1. PICK caller \in Account, token \in Token :
          \/ \E to \in Holder, amount \in Value : mint(caller, token, to, amount)
          \/ finishMinting(caller, token)
          \/ \E account \in Account : addMinter(caller, token, account)
          \/ renounceMinter(caller, token)
    BY <1>2 DEF Mints
  <2>2. UNCHANGED Legacy!contract
    BY <1>2 DEF Mints
  <2>3. \/ \E amount \in Value, to \in Legacy!Holder :
                Legacy!mint(caller, token, to, amount)
        \/ Legacy!finishMinting(caller, token)
        \/ \E account \in Account : Legacy!addMinter(caller, token, account)
        \/ Legacy!renounceMinter(caller, token)
    BY <2>1 DEF mint, finishMinting, addMinter, renounceMinter, onlyMinter, Holder,
                Legacy!mint, Legacy!finishMinting, Legacy!addMinter,
                Legacy!renounceMinter, Legacy!onlyMinter, Legacy!Holder
  <2> QED BY <2>2, <2>3 DEF Legacy!Next, Legacy!TokenCalls
<1>3. CASE Opens
  <2>1. PICK caller \in Account, id \in Id, receiver \in Address,
             token \in Token \cup {Zero}, settlingPeriod \in Period, value \in Value :
               open(caller, id, receiver, settlingPeriod, token, value)
    BY <1>3 DEF Opens
  <2>2. token \in Token
    BY <2>1 DEF open, mayOpen
  <2>3. Legacy!open(caller, id, receiver, settlingPeriod, token, value)
    BY <2>1 DEF open, mayOpen, Legacy!open
  <2> QED BY <2>2, <2>3 DEF Address, Legacy!Next
<1>4. CASE Deposits
  <2>1. PICK caller \in Account, id \in Id, value \in Value : deposit(caller, id, value)
    BY <1>4 DEF Deposits
  <2>2. Legacy!deposit(caller, id, value)
    BY <2>1 DEF deposit, mayDeposit, Legacy!deposit
  <2> QED BY <2>2 DEF Legacy!Next
<1>5. CASE StartsSettling
  <2>1. PICK caller \in Account, id \in Id : startSettling(caller, id)
    BY <1>5 DEF StartsSettling
  <2>2. Legacy!startSettling(caller, id)
    BY <2>1 DEF startSettling, mayStartSettling, Legacy!startSettling
  <2> QED BY <2>2 DEF Legacy!Next
<1>6. CASE Settles
  <2>1. PICK id \in Id : settle(id)
    BY <1>6 DEF Settles
  <2>2. Legacy!settle(id)
    BY <2>1 DEF settle, maySettle, Legacy!settle
  <2> QED BY <2>2 DEF Legacy!Next
<1>7. CASE Claims
  <2>1. PICK caller \in Account, id \in Id, payment \in Promise :
          claim(caller, id, payment)
    BY <1>7 DEF Claims
  <2>2. Legacy!claim(caller, id, payment)
    BY <2>1 DEF claim, mayClaim, Legacy!claim
  <2> QED BY <2>2 DEF Legacy!Next
<1>8. CASE Pauses
  BY <1>8 DEF Pauses, pause, unpause, Legacy!vars
<1>9. CASE Signs
  BY <1>9 DEF Signs, Sign, Legacy!Next
<1>10. CASE Mine
  BY <1>10 DEF Mine, Legacy!Next, Legacy!Mine
<1> QED BY <1>1, <1>2, <1>3, <1>4, <1>5, <1>6, <1>7, <1>8, <1>9, <1>10 DEF Next

(* For any tokens, accounts, amounts and periods, whatever the upgradeable  *)
(* token contract does to channels and tokens its predecessor would have    *)
(* done too (TokenUnidirectionalUpgradeable.sol, TokenUnidirectional.sol).  *)
THEOREM TokenCompatible == Spec => ImplementsLegacy
<1>1. [Next]_vars => [Legacy!Next]_(Legacy!vars)
  BY LegacyStep DEF vars, Legacy!vars
<1> QED BY LegacyInit, <1>1, PTL DEF Spec, ImplementsLegacy, Legacy!Spec
=============================================================================
