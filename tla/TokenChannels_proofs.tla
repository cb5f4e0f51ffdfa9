-------------------------- MODULE TokenChannels_proofs --------------------------
(***************************************************************************)
(* Proofs about the library's calls on token channels, for any accounts,   *)
(* tokens, channels, amounts and calls.                                    *)
(*                                                                         *)
(* A step of the calls is one of a few shapes: a call starts, walks on,    *)
(* posts a transaction or stops, or a transaction is executed.  The parts  *)
(* of the invariant are preserved shape by shape:                          *)
(*   CallTypes   what the place of a call says of its work and its         *)
(*               transactions                                              *)
(*   Order       the transaction a call waits for is the last of its       *)
(*               account, so what follows its receipt is alone             *)
(*   Private     a channel that is being opened is nobody else's business  *)
(*   Agreed      all that names a channel names it with one token          *)
(*   Outcome     what a simulation showed holds until it is mined, and     *)
(*               what a receipt says holds until it is seen                *)
(***************************************************************************)
EXTENDS TokenChannels, TokenUnidirectional_proofs, SequenceTheorems

Function == {"approve", "open", "deposit", "startSettling", "settle", "claim"}
WaitFor == [approve |-> "approving", open |-> "opening", deposit |-> "depositing",
            startSettling |-> "announcing", settle |-> "settling", claim |-> "claiming"]
Place == Over \cup Waiting \cup Function \cup {"absent?", "settling?"}

PlacesOf(t) ==
  IF t \in Opening THEN {"approve", "approving", "open", "opening"}
  ELSE IF t \in Topping THEN {"approve", "approving", "deposit", "depositing"}
  ELSE IF t \in Closing
       THEN {"absent?", "settling?", "startSettling", "announcing", "settle", "settling"}
  ELSE {"claim", "claiming"}

FirstOf(t) == IF t \in Opening \cup Topping THEN "approve"
              ELSE IF t \in Closing THEN "absent?" ELSE "claim"

FunctionsOf(t) == Function \cap PlacesOf(t)

ValuesOf(t) == IF t \in Opening \cup Topping THEN Value
               ELSE IF t \in Closing THEN {0} ELSE Promise

Work == [id : Id, token : Token, value : Nat]
Tx == [call : Call, function : Function, args : Work]
Queue == {Payer, Payee}

CallTypes ==
  /\ step \in [Call -> Place]
  /\ work \in [Call -> Work \cup {Nothing}]
  /\ receipt \in [Call -> {"none", "success", "reverted"}]
  /\ mempool \in [Queue -> Seq(Tx)]
  /\ rows \subseteq [id : Id, token : Token]
  /\ \A t \in Call :
       IF step[t] \in Over THEN work[t] = Nothing
       ELSE step[t] \in PlacesOf(t) /\ work[t] \in Work /\ work[t].value \in ValuesOf(t)
  /\ \A account \in Queue : \A i \in DOMAIN mempool[account] :
       LET tx == mempool[account][i] IN
       /\ Caller(tx.call) = account
       /\ tx.function \in FunctionsOf(tx.call)
       /\ tx.args.value \in ValuesOf(tx.call)

\* What names a channel, and with which token.
InMempool(tx) == \E account \in Queue : \E i \in DOMAIN mempool[account] :
                   mempool[account][i] = tx

Mentions(id, token) ==
  \/ isPresent(id) /\ channels[id].tokenContract = token
  \/ [id |-> id, token |-> token] \in rows
  \/ \E t \in Call : work[t].id = id /\ work[t].token = token
  \/ \E promise \in signed : promise.id = id /\ promise.token = token
  \/ \E tx \in Tx : InMempool(tx) /\ tx.args.id = id /\ tx.args.token = token

Familiar(id) == Knows(id) \/ \E promise \in signed : promise.id = id

-----------------------------------------------------------------------------
(* The shapes of a step.                                                    *)

Starts(t) ==
  /\ step[t] = "idle"
  /\ step' = [step EXCEPT ![t] = FirstOf(t)]
  /\ \E args \in Work :
       /\ work' = [work EXCEPT ![t] = args]
       /\ args.value \in ValuesOf(t)
       /\ IF t \in Opening THEN Fresh(args.id)
          ELSE Familiar(args.id) /\ Mentions(args.id, args.token)
  /\ t \notin Claiming => Cardinality(Active) < MaxAtOnce
  /\ UNCHANGED <<vars, receipt, mempool, rows>>

Walks(t) ==
  /\ step[t] \in {"absent?", "settling?", "approving"}
  /\ step[t] = "approving" => receipt[t] # "none"
  /\ \E label \in PlacesOf(t) \ (Waiting \cup {"approve"}) :
       /\ step' = [step EXCEPT ![t] = label]
       /\ label \in {"open", "deposit"} => step[t] = "approving"
  /\ UNCHANGED <<vars, work, receipt, mempool, rows>>

Simulated(t) ==
  /\ step[t] = "open" => MayOpen(work[t])
  /\ step[t] = "deposit" => MayDeposit(work[t])
  /\ step[t] = "settle" => MaySettle(work[t])
  /\ step[t] = "claim" => MayClaim(work[t])

Posts(t) ==
  /\ step[t] \in Function
  /\ Sends(t, step[t], WaitFor[step[t]])
  /\ Simulated(t)

Stops(t) ==
  /\ step[t] \notin Over
  /\ \E outcome \in {"done", "failed"} :
       /\ Finish(t, outcome)
       /\ outcome = "done" => step[t] \in Waiting \ {"approving"} /\ receipt[t] # "none"
  /\ step[t] = "open" => ~MayOpen(work[t])
  /\ step[t] = "deposit" => ~MayDeposit(work[t])
  /\ \/ rows' = rows
     \/ /\ step[t] = "opening" /\ receipt[t] # "none"
        /\ rows' = rows \cup {[id |-> work[t].id, token |-> work[t].token]}
  /\ UNCHANGED <<vars, mempool>>

Signing == \E row \in rows, amount \in Promise : signPayment(row, amount)

LEMMA ValuesAreNumbers == ASSUME NEW t PROVE ValuesOf(t) \subseteq Nat
BY RangeAssumption DEF ValuesOf

LEMMA BeginStarts ==
  ASSUME NEW t \in Call, NEW id \in Id, NEW token \in Token, NEW value \in ValuesOf(t),
         Begin(t, id, token, value, FirstOf(t)),
         IF t \in Opening THEN Fresh(id) ELSE Familiar(id) /\ Mentions(id, token)
  PROVE  Starts(t)
<1> DEFINE args == [id |-> id, token |-> token, value |-> value]
<1>1. args \in Work
  BY ValuesAreNumbers DEF Work
<1>2. /\ args.id = id /\ args.token = token /\ args.value = value
      /\ work' = [work EXCEPT ![t] = args]
  BY DEF Begin
<1> HIDE DEF args
<1>3. \E a \in Work : /\ work' = [work EXCEPT ![t] = a]
                      /\ a.value \in ValuesOf(t)
                      /\ IF t \in Opening THEN Fresh(a.id)
                         ELSE Familiar(a.id) /\ Mentions(a.id, a.token)
  BY <1>1, <1>2
<1> QED BY <1>3 DEF Begin, Starts, Goto

LEMMA Shapes ==
  ASSUME IInv, CallTypes, CallsNext
  PROVE  \/ \E t \in Call : Starts(t) \/ Walks(t) \/ Posts(t) \/ Stops(t)
         \/ \E account \in Queue : Execute(account)
         \/ Signing
         \/ Mine /\ UNCHANGED calls
<1> USE DEF CallTypes
<1>1. ASSUME NEW t \in Call, openChannel(t) PROVE Starts(t)
  <2>1. PICK id \in Id, token \in Token, value \in Value :
          Fresh(id) /\ Begin(t, id, token, value, "approve")
    BY <1>1 DEF openChannel
  <2>2. t \in Opening /\ value \in ValuesOf(t) /\ FirstOf(t) = "approve" /\ t \notin Topping \cup Closing
    BY <1>1, CallsAssumption DEF openChannel, ValuesOf, FirstOf
  <2> QED BY <2>1, <2>2, BeginStarts
<1>2. ASSUME NEW t \in Call, depositInto(t) PROVE Starts(t)
  <2>1. PICK row \in rows, value \in Value : Begin(t, row.id, row.token, value, "approve")
    BY <1>2 DEF depositInto
  <2>2. row.id \in Id /\ row.token \in Token /\ Familiar(row.id) /\ Mentions(row.id, row.token)
    <3>1. row = [id |-> row.id, token |-> row.token]
      OBVIOUS
    <3> QED BY <3>1 DEF Knows, Familiar, Mentions
  <2>3. t \notin Opening /\ value \in ValuesOf(t) /\ FirstOf(t) = "approve"
    BY <1>2, CallsAssumption DEF depositInto, ValuesOf, FirstOf
  <2> QED BY <2>1, <2>2, <2>3, BeginStarts
<1>3. ASSUME NEW t \in Call, closeChannel(t) PROVE Starts(t)
  <2>1. PICK row \in rows : Begin(t, row.id, row.token, 0, "absent?")
    BY <1>3 DEF closeChannel
  <2>2. row.id \in Id /\ row.token \in Token /\ Familiar(row.id) /\ Mentions(row.id, row.token)
    <3>1. row = [id |-> row.id, token |-> row.token]
      OBVIOUS
    <3> QED BY <3>1 DEF Knows, Familiar, Mentions
  <2>3. t \notin Opening /\ 0 \in ValuesOf(t) /\ FirstOf(t) = "absent?"
    BY <1>3, CallsAssumption DEF closeChannel, ValuesOf, FirstOf
  <2> QED BY <2>1, <2>2, <2>3, BeginStarts
<1>4. ASSUME NEW t \in Call, claimChannel(t) PROVE Starts(t)
  <2>1. PICK promise \in signed :
          Begin(t, promise.id, promise.token, promise.amount, "claim")
    BY <1>4 DEF claimChannel
  <2>2. promise.id \in Id /\ promise.token \in Token /\ promise.amount \in Promise
        /\ Familiar(promise.id) /\ Mentions(promise.id, promise.token)
    BY DEF IInv, TypeOK, PromiseOf, Familiar, Mentions
  <2>3. /\ t \notin Opening \cup Topping \cup Closing
        /\ promise.amount \in ValuesOf(t) /\ FirstOf(t) = "claim"
    BY <1>4, <2>2, CallsAssumption DEF claimChannel, ValuesOf, FirstOf
  <2> QED BY <2>1, <2>2, <2>3, BeginStarts
<1>5. ASSUME NEW t \in Call, CallStep(t) \/ timeout(t)
      PROVE  Walks(t) \/ Posts(t) \/ Stops(t)
  <2>3. CASE callApprove(t)
    BY <2>3 DEF callApprove, Posts, Simulated, WaitFor, Function
  <2>4. CASE callOpen(t)
    BY <2>4 DEF callOpen, Posts, Simulated, WaitFor, Function, Refused, Stops, Over
  <2>5. CASE callDeposit(t)
    BY <2>5 DEF callDeposit, Posts, Simulated, WaitFor, Function, Refused, Stops, Over
  <2>6. CASE callStartSettling(t)
    BY <2>6 DEF callStartSettling, Posts, Simulated, WaitFor, Function, Refused, Stops, Over
  <2>7. CASE callSettle(t)
    BY <2>7 DEF callSettle, Posts, Simulated, WaitFor, Function, Refused, Stops, Over
  <2>8. CASE callClaim(t)
    BY <2>8 DEF callClaim, Posts, Simulated, WaitFor, Function, Refused, Stops, Over
  <2>9. CASE readAbsent(t)
    BY <2>9 DEF readAbsent, Walks, Stops, Over, PlacesOf, Goto, Waiting
  <2>10. CASE readSettling(t)
    <3>1. t \in Closing /\ step[t] = "settling?"
      BY <2>10 DEF readSettling, PlacesOf, Over
    <3>2. {"settle", "startSettling"} \subseteq PlacesOf(t) \ (Waiting \cup {"approve"})
      BY <3>1, CallsAssumption DEF PlacesOf, Waiting
    <3> QED BY <2>10, <3>1, <3>2 DEF readSettling, Walks, Goto
  <2>11. CASE proceed(t)
    BY <2>11 DEF proceed, approved, Walks, Over, PlacesOf, Goto, Waiting
  <2>12. CASE saveOpened(t)
    BY <2>12 DEF saveOpened, Stops, Over, Waiting
  <2>13. CASE complete(t) \/ timeout(t)
    BY <2>13 DEF complete, timeout, Stops, Over, Waiting
  <2> QED BY <1>5, <2>3, <2>4, <2>5, <2>6, <2>7, <2>8, <2>9, <2>10, <2>11, <2>12, <2>13
          DEF CallStep
<1> QED BY <1>1, <1>2, <1>3, <1>4, <1>5 DEF CallsNext, Queue, Signing

-----------------------------------------------------------------------------
(* The mempool.                                                             *)

OnlyOf(S) == \A tx \in Tx : InMempool(tx) => tx.call \in S

LEMMA Members ==
  ASSUME CallTypes, NEW tx, InMempool(tx)
  PROVE  /\ tx \in Tx
         /\ tx.function \in FunctionsOf(tx.call)
         /\ tx.args.value \in ValuesOf(tx.call)
         /\ \A account \in Queue : \A i \in DOMAIN mempool[account] :
              mempool[account][i] = tx => account = Caller(tx.call)
BY DEF CallTypes, InMempool

LEMMA Posted ==
  ASSUME CallTypes, NEW t \in Call, Posts(t)
  PROVE  LET new == [call |-> t, function |-> step[t], args |-> work[t]]
             old == mempool[Caller(t)]
         IN
         /\ new \in Tx /\ step[t] \in FunctionsOf(t) /\ work[t].value \in ValuesOf(t)
         /\ mempool' \in [Queue -> Seq(Tx)]
         /\ \A account \in Queue \ {Caller(t)} : mempool'[account] = mempool[account]
         /\ DOMAIN mempool'[Caller(t)] = DOMAIN old \cup {Len(old) + 1}
         /\ DOMAIN old = 1 .. Len(old) /\ Len(old) \in Nat
         /\ \A i \in DOMAIN old : mempool'[Caller(t)][i] = old[i]
         /\ mempool'[Caller(t)][Len(old) + 1] = new
<1> DEFINE new == [call |-> t, function |-> step[t], args |-> work[t]]
           old == mempool[Caller(t)]
<1>1. step[t] \in Function /\ step[t] \notin Over
  BY DEF Posts, Function, Over
<1>2. step[t] \in FunctionsOf(t) /\ work[t] \in Work /\ work[t].value \in ValuesOf(t)
  BY <1>1 DEF CallTypes, FunctionsOf
<1>3. new \in Tx
  BY <1>1, <1>2 DEF Tx
<1>4. Caller(t) \in Queue /\ old \in Seq(Tx)
  BY DEF CallTypes, Caller, Queue
<1>5. mempool' = [mempool EXCEPT ![Caller(t)] = Append(old, new)]
  BY DEF Posts, Sends
<1> HIDE DEF new, old
<1>6. /\ Append(old, new) \in Seq(Tx)
      /\ DOMAIN Append(old, new) = DOMAIN old \cup {Len(old) + 1}
      /\ DOMAIN old = 1 .. Len(old) /\ Len(old) \in Nat
      /\ \A i \in DOMAIN old : Append(old, new)[i] = old[i]
      /\ Append(old, new)[Len(old) + 1] = new
  BY <1>3, <1>4
<1>7. /\ mempool'[Caller(t)] = Append(old, new)
      /\ mempool' \in [Queue -> Seq(Tx)]
      /\ \A account \in Queue \ {Caller(t)} : mempool'[account] = mempool[account]
  BY <1>4, <1>5, <1>6 DEF CallTypes
<1> QED BY <1>2, <1>3, <1>6, <1>7 DEF new, old

LEMMA PostedMembers ==
  ASSUME CallTypes, NEW t \in Call, Posts(t), NEW tx
  PROVE  InMempool(tx)' <=>
           InMempool(tx) \/ tx = [call |-> t, function |-> step[t], args |-> work[t]]
<1> DEFINE new == [call |-> t, function |-> step[t], args |-> work[t]]
<1>1. Caller(t) \in Queue
  BY DEF Caller, Queue
<1>2. /\ \A account \in Queue \ {Caller(t)} : mempool'[account] = mempool[account]
      /\ \A i \in DOMAIN mempool[Caller(t)] :
           i \in DOMAIN mempool'[Caller(t)] /\ mempool'[Caller(t)][i] = mempool[Caller(t)][i]
      /\ \A i \in DOMAIN mempool'[Caller(t)] :
           i \in DOMAIN mempool[Caller(t)] \/ mempool'[Caller(t)][i] = new
      /\ \E i \in DOMAIN mempool'[Caller(t)] : mempool'[Caller(t)][i] = new
  BY Posted
<1> HIDE DEF new
<1>3. InMempool(tx) \/ tx = new => InMempool(tx)'
  BY <1>1, <1>2 DEF InMempool
<1>4. InMempool(tx)' => InMempool(tx) \/ tx = new
  BY <1>1, <1>2 DEF InMempool
<1> QED BY <1>3, <1>4 DEF new

LEMMA Executed ==
  ASSUME CallTypes, NEW account \in Queue, Execute(account)
  PROVE  LET old == mempool[account] new == mempool'[account] IN
         /\ mempool' \in [Queue -> Seq(Tx)]
         /\ 1 \in DOMAIN old /\ Head(old) = old[1] /\ old \in Seq(Tx)
         /\ \A other \in Queue \ {account} : mempool'[other] = mempool[other]
         /\ \A i \in DOMAIN new : /\ i \in Nat \ {0} /\ i + 1 \in DOMAIN old
                                  /\ new[i] = old[i + 1]
         /\ \A i \in DOMAIN old \ {1} : i - 1 \in DOMAIN new /\ new[i - 1] = old[i]
<1> DEFINE old == mempool[account]
<1>1. old \in Seq(Tx) /\ old # <<>> /\ mempool' = [mempool EXCEPT ![account] = Tail(old)]
  BY DEF CallTypes, Execute
<1> HIDE DEF old
<1>2. /\ Tail(old) \in Seq(Tx) /\ Head(old) = old[1] /\ 1 \in DOMAIN old
      /\ \A i \in DOMAIN Tail(old) : /\ i \in Nat \ {0} /\ i + 1 \in DOMAIN old
                                     /\ Tail(old)[i] = old[i + 1]
      /\ \A i \in DOMAIN old \ {1} : i - 1 \in DOMAIN Tail(old) /\ Tail(old)[i - 1] = old[i]
  BY <1>1
<1>3. /\ mempool'[account] = Tail(old) /\ mempool' \in [Queue -> Seq(Tx)]
      /\ \A other \in Queue \ {account} : mempool'[other] = mempool[other]
  BY <1>1, <1>2 DEF CallTypes
<1> QED BY <1>1, <1>2, <1>3 DEF old

LEMMA ExecutedMembers ==
  ASSUME CallTypes, NEW account \in Queue, Execute(account), NEW tx
  PROVE  /\ InMempool(Head(mempool[account]))
         /\ InMempool(tx)' => InMempool(tx)
         /\ InMempool(tx) => InMempool(tx)' \/ tx = Head(mempool[account])
<1>1. InMempool(Head(mempool[account]))
  BY Executed DEF InMempool
<1>2. ASSUME InMempool(tx)' PROVE InMempool(tx)
  BY <1>2, Executed DEF InMempool
<1>3. ASSUME InMempool(tx), tx # Head(mempool[account]) PROVE InMempool(tx)'
  <2>1. PICK other \in Queue : \E i \in DOMAIN mempool[other] : mempool[other][i] = tx
    BY <1>3 DEF InMempool
  <2>2. PICK i \in DOMAIN mempool[other] : mempool[other][i] = tx
    BY <2>1
  <2>3. CASE other = account
    <3>1. i \in DOMAIN mempool[account] \ {1}
      BY <1>3, <2>2, <2>3, Executed
    <3>2. i - 1 \in DOMAIN mempool'[account] /\ mempool'[account][i - 1] = tx
      BY <2>2, <2>3, <3>1, Executed
    <3> QED BY <3>2 DEF InMempool
  <2>4. CASE other # account
    BY <2>2, <2>4, Executed DEF InMempool
  <2> QED BY <2>3, <2>4
<1> QED BY <1>1, <1>2, <1>3

LEMMA ExecutedTypes ==
  ASSUME CallTypes, NEW account \in Queue, Execute(account)
  PROVE  CallTypes'
<1> DEFINE tx == Head(mempool[account])
<1>1. tx \in Tx /\ UNCHANGED <<step, work, rows>>
  BY ExecutedMembers, Members DEF Execute
<1>2. receipt' \in [Call -> {"none", "success", "reverted"}]
  BY <1>1 DEF CallTypes, Execute, Status, Tx
<1>3. ASSUME NEW other \in Queue, NEW i \in DOMAIN mempool'[other]
      PROVE  LET x == mempool'[other][i] IN
             /\ Caller(x.call) = other
             /\ x.function \in FunctionsOf(x.call)
             /\ x.args.value \in ValuesOf(x.call)
  <2>1. CASE other = account
    BY <1>3, <2>1, Executed DEF CallTypes
  <2>2. CASE other # account
    BY <1>3, <2>2, Executed DEF CallTypes
  <2> QED BY <2>1, <2>2
<1>4. mempool' \in [Queue -> Seq(Tx)]
  BY Executed
<1> QED BY <1>1, <1>2, <1>3, <1>4 DEF CallTypes

LEMMA PostedTypes ==
  ASSUME CallTypes, NEW t \in Call, Posts(t)
  PROVE  CallTypes'
<1>1. /\ step[t] \in Function /\ step[t] \in PlacesOf(t) /\ step[t] \notin Over
      /\ step' = [step EXCEPT ![t] = WaitFor[step[t]]]
      /\ receipt' = [receipt EXCEPT ![t] = "none"]
      /\ UNCHANGED <<work, rows>>
  BY DEF Posts, Sends, Goto, CallTypes, Function, Over
<1>2. WaitFor[step[t]] \in Place \ Over /\ WaitFor[step[t]] \in PlacesOf(t)
  BY <1>1 DEF WaitFor, Place, Over, Waiting, Function, PlacesOf
<1>3. ASSUME NEW account \in Queue, NEW i \in DOMAIN mempool'[account]
      PROVE  LET x == mempool'[account][i] IN
             /\ Caller(x.call) = account
             /\ x.function \in FunctionsOf(x.call)
             /\ x.args.value \in ValuesOf(x.call)
  <2> SUFFICES ASSUME NEW x, x = mempool'[account][i]
               PROVE  /\ Caller(x.call) = account
                      /\ x.function \in FunctionsOf(x.call)
                      /\ x.args.value \in ValuesOf(x.call)
    OBVIOUS
  <2> DEFINE new == [call |-> t, function |-> step[t], args |-> work[t]]
  <2>1. \/ i \in DOMAIN mempool[account] /\ x = mempool[account][i]
        \/ account = Caller(t) /\ x = new
    <3> HIDE DEF new
    <3>1. CASE account = Caller(t)
      BY <1>3, <3>1, Posted DEF new
    <3>2. CASE account # Caller(t)
      BY <1>3, <3>2, Posted
    <3> QED BY <3>1, <3>2
  <2>2. CASE account = Caller(t) /\ x = new
    BY <2>2, Posted
  <2>3. CASE i \in DOMAIN mempool[account] /\ x = mempool[account][i]
    BY <2>3 DEF CallTypes
  <2> QED BY <2>1, <2>2, <2>3
<1>4. mempool' \in [Queue -> Seq(Tx)]
  BY Posted
<1> QED BY <1>1, <1>2, <1>3, <1>4 DEF CallTypes

LEMMA OtherTypes ==
  ASSUME CallTypes, NEW t \in Call, Starts(t) \/ Walks(t) \/ Stops(t)
  PROVE  CallTypes'
<1>1. CASE Starts(t)
  <2>1. FirstOf(t) \in PlacesOf(t) /\ FirstOf(t) \in Place \ Over
    BY DEF FirstOf, PlacesOf, Place, Over, Function, Call
  <2> QED BY <1>1, <2>1 DEF Starts, CallTypes
<1>2. CASE Walks(t)
  <2>1. step[t] \notin Over
    BY <1>2 DEF Walks, Over
  <2>2. PlacesOf(t) \subseteq Place \ Over
    BY DEF PlacesOf, Place, Over, Function, Waiting
  <2> QED BY <1>2, <2>1, <2>2 DEF Walks, CallTypes
<1>3. CASE Stops(t)
  <2>1. work[t] \in Work
    BY <1>3 DEF Stops, CallTypes
  <2>2. rows' \subseteq [id : Id, token : Token]
    BY <1>3, <2>1 DEF Stops, CallTypes, Work
  <2>3. PICK outcome \in {"done", "failed"} :
          /\ step' = [step EXCEPT ![t] = outcome]
          /\ work' = [work EXCEPT ![t] = Nothing]
          /\ receipt' = [receipt EXCEPT ![t] = "none"]
          /\ UNCHANGED mempool
    BY <1>3 DEF Stops, Finish, Goto
  <2>4. outcome \in Place /\ outcome \in Over
    BY DEF Place, Over
  <2> QED BY <2>2, <2>3, <2>4 DEF CallTypes
<1> QED BY <1>1, <1>2, <1>3

LEMMA StepCallTypes == IInv /\ CallTypes /\ [CallsNext]_all => CallTypes'
<1> SUFFICES ASSUME IInv, CallTypes, [CallsNext]_all PROVE CallTypes'
  OBVIOUS
<1>1. CASE UNCHANGED calls
  BY <1>1 DEF calls, CallTypes
<1>2. Signing => UNCHANGED calls
  BY DEF Signing, signPayment
<1>3. UNCHANGED all => UNCHANGED calls
  BY DEF all
<1> QED BY <1>1, <1>2, <1>3, Shapes, ExecutedTypes, PostedTypes, OtherTypes

-----------------------------------------------------------------------------
(* What the calls do to the contract, the contract allows.                  *)

LEMMA FunctionOfCall ==
  ASSUME CallTypes, NEW tx, InMempool(tx)
  PROVE  /\ tx.call \in Call /\ tx.args.id \in Id /\ tx.args.token \in Token
         /\ tx.function \in {"approve", "open", "deposit"} =>
              /\ tx.call \in Opening \cup Topping
              /\ tx.args.value \in Value
         /\ tx.function = "open" => tx.call \in Opening
         /\ tx.function = "deposit" => tx.call \in Topping
         /\ tx.function \in {"startSettling", "settle"} => tx.call \in Closing
         /\ tx.function = "claim" => tx.call \in Claiming /\ tx.args.value \in Promise
BY Members, CallsAssumption DEF Tx, Work, FunctionsOf, PlacesOf, ValuesOf, Call, Function

LEMMA EffectIsAllowed ==
  ASSUME CallTypes, NEW tx, InMempool(tx), Effect(tx)
  PROVE  Next
<1>1. /\ Payer \in Account /\ Payee \in Account /\ Payee \in Address
      /\ SettlementPeriod \in Period
  BY CallsAssumption DEF Address
<1>2. tx.args.id \in Id /\ tx.args.token \in Token
  BY FunctionOfCall
<1>3. CASE tx.function = "approve"
  <2>1. approve(Payer, tx.args.token, tx.args.value) /\ UNCHANGED contract /\ tx.args.value \in Value
    BY <1>3, FunctionOfCall DEF Effect
  <2> QED BY <1>1, <1>2, <2>1 DEF Next, Approves
<1>4. CASE tx.function = "open"
  <2>1. /\ open(Payer, tx.args.id, Payee, SettlementPeriod, tx.args.token, tx.args.value)
        /\ tx.args.value \in Value
    BY <1>4, FunctionOfCall DEF Effect
  <2> QED BY <1>1, <1>2, <2>1 DEF Next, Opens
<1>5. CASE tx.function = "deposit"
  <2>1. deposit(Payer, tx.args.id, tx.args.value) /\ tx.args.value \in Value
    BY <1>5, FunctionOfCall DEF Effect
  <2> QED BY <1>1, <1>2, <2>1 DEF Next, Deposits
<1>6. CASE tx.function = "startSettling"
  <2>1. startSettling(Payer, tx.args.id)
    BY <1>6 DEF Effect
  <2> QED BY <1>1, <1>2, <2>1 DEF Next, StartsSettling
<1>7. CASE tx.function = "settle"
  <2>1. settle(tx.args.id)
    BY <1>7 DEF Effect
  <2> QED BY <1>2, <2>1 DEF Next, Settles
<1>8. CASE tx.function = "claim"
  <2>1. claim(Payee, tx.args.id, tx.args.value) /\ tx.args.value \in Promise
    BY <1>8, FunctionOfCall DEF Effect
  <2> QED BY <1>1, <1>2, <2>1 DEF Next, Claims
<1> QED BY <1>3, <1>4, <1>5, <1>6, <1>7, <1>8 DEF Effect

LEMMA StepIsAllowed == IInv /\ CallTypes /\ [CallsNext]_all => [Next]_vars
<1> SUFFICES ASSUME IInv, CallTypes, CallsNext PROVE Next \/ UNCHANGED vars
  BY DEF all
<1>1. ASSUME NEW t \in Call, Starts(t) \/ Walks(t) \/ Posts(t) \/ Stops(t) PROVE UNCHANGED vars
  BY <1>1 DEF Starts, Walks, Posts, Sends, Stops
<1>2. ASSUME NEW account \in Queue, Execute(account) PROVE Next \/ UNCHANGED vars
  <2> DEFINE tx == Head(mempool[account])
  <2>1. InMempool(tx)
    BY <1>2, ExecutedMembers
  <2>2. Effect(tx) \/ UNCHANGED vars
    BY <1>2 DEF Execute
  <2> HIDE DEF tx
  <2> QED BY <2>1, <2>2, EffectIsAllowed
<1>3. CASE Signing
  <2>1. PICK row \in rows, amount \in Promise : Sign(Payer, row.id, amount, row.token)
    BY <1>3 DEF Signing, signPayment
  <2>2. row.id \in Id /\ row.token \in Token /\ Payer \in Account
    BY CallsAssumption DEF CallTypes
  <2> QED BY <2>1, <2>2 DEF Next, Signs
<1>4. Mine => Next
  BY DEF Next
<1> QED BY <1>1, <1>2, <1>3, <1>4, Shapes

LEMMA CallTypesInvariance == CallsSpec => [](IInv /\ CallTypes)
<1>1. Init /\ CallsInit => IInv /\ CallTypes
  <2>1. CallsInit => CallTypes
    BY DEF CallsInit, CallTypes, Place, Over, Queue
  <2> QED BY <2>1, InitIInv
<1>2. IInv /\ CallTypes /\ [CallsNext]_all => IInv' /\ CallTypes'
  BY StepIsAllowed, StepCallTypes, NextIInv
<1> QED BY <1>1, <1>2, PTL DEF CallsSpec

(* Whatever the calls of the two libraries send, in whatever order it is    *)
(* mined, reverted or seen too late, is a behaviour of the contract's       *)
(* specification: its theorems hold of the channels that are used so.       *)
THEOREM CallsFollowContract == CallsSpec => Spec
<1>1. CallsSpec => Init
  BY DEF CallsSpec
<1> QED BY <1>1, CallTypesInvariance, StepIsAllowed, PTL DEF CallsSpec, Spec

(* So the calls, too, use the contract as its predecessor could be used.    *)
THEOREM CallsFollowLegacy == CallsSpec => ImplementsLegacy
BY CallsFollowContract, TokenCompatible, PTL

-----------------------------------------------------------------------------
(* Order: one call of the payer at a time.                                  *)

Awaits(t) == step[t] \in Waiting /\ receipt[t] = "none"
Approved(t) == \/ step[t] = "approving" /\ receipt[t] # "none"
               \/ step[t] \in {"open", "deposit"}

\* The transaction that t waits for is its only one, and of the payer's
\* it is the last.
Sent(t) ==
  \E i \in DOMAIN mempool[Caller(t)] :
    /\ mempool[Caller(t)][i].call = t
    /\ mempool[Caller(t)][i].args = work[t]
    /\ step[t] = WaitFor[mempool[Caller(t)][i].function]
    /\ \A j \in DOMAIN mempool[Caller(t)] :
         /\ mempool[Caller(t)][j].call = t => j = i
         /\ t \notin Claiming /\ j > i => mempool[Caller(t)][j].call \in Claiming

OrderOf(t) ==
  /\ Awaits(t) => Sent(t)
  /\ step[t] \notin {"done", "failed"} /\ ~Awaits(t) => OnlyOf(Call \ {t})
  /\ Approved(t) => OnlyOf(Claiming)
  /\ step[t] \in {"opening", "depositing"} /\ Awaits(t) => OnlyOf(Claiming \cup {t})

OneActive == \A t, u \in Active : t = u

Order == OneActive /\ \A t \in Call : OrderOf(t)

LEMMA Members2 ==
  ASSUME CallTypes, NEW account \in Queue, NEW i \in DOMAIN mempool[account]
  PROVE  /\ InMempool(mempool[account][i]) /\ mempool[account][i] \in Tx
         /\ Caller(mempool[account][i].call) = account
BY DEF CallTypes, InMempool

LEMMA OnlyActive ==
  ASSUME OneActive, NEW t \in Call, NEW u \in Call, t # u,
         step[t] \notin Over, step[u] \notin Over, t \notin Claiming
  PROVE  u \in Claiming
BY DEF OneActive, Active

LEMMA StepOneActive ==
  ASSUME MaxAtOnce = 1, IInv, CallTypes, Order, [CallsNext]_all
  PROVE  OneActive'
<1> USE DEF CallTypes
<1>1. Active' \subseteq Active => OneActive'
  BY DEF Order, OneActive
<1>2. ASSUME NEW t \in Call, Starts(t) PROVE OneActive'
  <2>1. Active' \subseteq Active \cup ({t} \ Claiming)
    BY <1>2 DEF Starts, Active
  <2>2. CASE t \in Claiming
    BY <1>1, <2>1, <2>2
  <2>3. CASE t \notin Claiming
    <3>1. Cardinality(Active) < 1
      BY <1>2, <2>3 DEF Starts
    <3>2. ASSUME NEW u \in Active PROVE FALSE
      <4>1. Active = {u}
        BY DEF Order, OneActive
      <4>2. Cardinality({u}) = 1
        BY FS_Singleton
      <4> HIDE DEF Active
      <4> QED BY <3>1, <4>1, <4>2
    <3>3. Active = {}
      BY <3>2
    <3> QED BY <2>1, <3>3 DEF OneActive
  <2> QED BY <2>2, <2>3
<1>3. ASSUME NEW t \in Call, Walks(t) PROVE Active' \subseteq Active
  <2>1. step[t] \notin Over
    BY <1>3 DEF Walks, Over
  <2> QED BY <1>3, <2>1 DEF Walks, Active
<1>4. ASSUME NEW t \in Call, Posts(t) PROVE Active' \subseteq Active
  <2>1. step[t] \notin Over
    BY <1>4 DEF Posts, Over, Function
  <2> QED BY <1>4, <2>1 DEF Posts, Sends, Goto, Active
<1>5. ASSUME NEW t \in Call, Stops(t) PROVE Active' \subseteq Active
  BY <1>5 DEF Stops, Finish, Goto, Active, Over
<1>6. UNCHANGED step => Active' = Active
  BY DEF Active
<1>7. (\E account \in Queue : Execute(account)) \/ Signing \/ UNCHANGED calls \/ UNCHANGED all
        => UNCHANGED step
  BY DEF Execute, Signing, signPayment, calls, all
<1> QED BY <1>1, <1>2, <1>3, <1>4, <1>5, <1>6, <1>7, Shapes

LEMMA OrderKept ==
  ASSUME NEW t \in Call, OrderOf(t), UNCHANGED mempool,
         step'[t] = step[t], work'[t] = work[t], receipt'[t] = receipt[t]
  PROVE  OrderOf(t)'
<1>1. \A S : OnlyOf(S)' <=> OnlyOf(S)
  BY DEF OnlyOf, InMempool
<1>2. (Awaits(t)' <=> Awaits(t)) /\ (Approved(t)' <=> Approved(t)) /\ (Sent(t)' <=> Sent(t))
  BY DEF Awaits, Approved, Sent
<1> QED BY <1>1, <1>2 DEF OrderOf

LEMMA StartsOrder ==
  ASSUME CallTypes, NEW t \in Call, OrderOf(t), Starts(t)
  PROVE  OrderOf(t)'
<1>1. step[t] = "idle" /\ step'[t] = FirstOf(t) /\ UNCHANGED mempool
  BY DEF Starts, CallTypes
<1>2. step'[t] \in {"approve", "absent?", "claim"}
  BY <1>1 DEF FirstOf
<1>3. OnlyOf(Call \ {t})
  BY <1>1 DEF OrderOf, Awaits, Waiting
<1>4. OnlyOf(Call \ {t})'
  BY <1>1, <1>3 DEF OnlyOf, InMempool
<1> QED BY <1>2, <1>4 DEF OrderOf, Awaits, Approved, Waiting

LEMMA WalksOrder ==
  ASSUME CallTypes, NEW t \in Call, OrderOf(t), Walks(t)
  PROVE  OrderOf(t)'
<1>1. /\ step[t] \in {"absent?", "settling?", "approving"} /\ ~Awaits(t)
      /\ step'[t] \notin Waiting /\ UNCHANGED mempool
      /\ step'[t] \in {"open", "deposit"} => step[t] = "approving" /\ receipt[t] # "none"
  BY DEF Walks, CallTypes, Awaits, Waiting
<1>2. OnlyOf(Call \ {t})
  BY <1>1 DEF OrderOf
<1>3. step'[t] \in {"open", "deposit"} => OnlyOf(Claiming)
  BY <1>1 DEF OrderOf, Approved
<1>4. OnlyOf(Call \ {t})' /\ (OnlyOf(Claiming)' <=> OnlyOf(Claiming))
  BY <1>1, <1>2 DEF OnlyOf, InMempool
<1> QED BY <1>1, <1>3, <1>4 DEF OrderOf, Awaits, Approved, Waiting

LEMMA PostsOrder ==
  ASSUME CallTypes, NEW t \in Call, OrderOf(t), Posts(t)
  PROVE  OrderOf(t)'
<1> DEFINE old == mempool[Caller(t)]
           new == [call |-> t, function |-> step[t], args |-> work[t]]
<1>1. /\ step[t] \in Function /\ step'[t] = WaitFor[step[t]]
      /\ receipt'[t] = "none" /\ work' = work
  BY DEF Posts, Sends, Goto, CallTypes
<1>2. step[t] \notin Waiting /\ step[t] \notin {"done", "failed"} /\ step'[t] \in Waiting
  BY <1>1 DEF Function, Waiting, WaitFor
<1>3. OnlyOf(Call \ {t})
  BY <1>2 DEF OrderOf, Awaits
<1>4. \A i \in DOMAIN old : old[i].call # t
  BY <1>3, Members2 DEF OnlyOf, Caller, Queue
<1>5. /\ DOMAIN mempool'[Caller(t)] = DOMAIN old \cup {Len(old) + 1}
      /\ DOMAIN old = 1 .. Len(old) /\ Len(old) \in Nat
      /\ \A i \in DOMAIN old : mempool'[Caller(t)][i] = old[i]
      /\ mempool'[Caller(t)][Len(old) + 1] = new
  BY Posted
<1> HIDE DEF old
<1>6. Sent(t)'
  <2> DEFINE i == Len(old) + 1
  <2>1. /\ i \in DOMAIN mempool'[Caller(t)]
        /\ mempool'[Caller(t)][i].call = t
        /\ mempool'[Caller(t)][i].args = work'[t]
        /\ mempool'[Caller(t)][i].function = step[t]
    BY <1>1, <1>5
  <2>2. \A j \in DOMAIN mempool'[Caller(t)] :
          (mempool'[Caller(t)][j].call = t => j = i) /\ ~ (j > i)
    BY <1>4, <1>5
  <2> QED BY <1>1, <2>1, <2>2 DEF Sent
<1>7. step'[t] \in {"opening", "depositing"} => OnlyOf(Claiming \cup {t})'
  <2> SUFFICES ASSUME step'[t] \in {"opening", "depositing"}, NEW tx \in Tx, InMempool(tx)'
               PROVE  tx.call \in Claiming \cup {t}
    BY DEF OnlyOf
  <2>1. step[t] \in {"open", "deposit"}
    BY <1>1 DEF Function, WaitFor
  <2>2. OnlyOf(Claiming)
    BY <2>1 DEF OrderOf, Approved
  <2>3. InMempool(tx) \/ tx.call = t
    BY PostedMembers
  <2> QED BY <2>2, <2>3 DEF OnlyOf
<1> QED BY <1>1, <1>2, <1>6, <1>7 DEF OrderOf, Awaits, Approved, Waiting

\* The transaction of another call comes last of all.
LEMMA PostsOrderOfOther ==
  ASSUME CallTypes, Order, NEW t \in Call, NEW u \in Call \ {t}, Posts(u)
  PROVE  OrderOf(t)'
<1>1. /\ step'[t] = step[t] /\ work' = work /\ receipt'[t] = receipt[t]
      /\ step[u] \in Function /\ step[u] \notin Over /\ OrderOf(t)
  BY DEF Posts, Sends, Goto, CallTypes, Order, Function, Over
<1>2. ASSUME NEW S, OnlyOf(S), u \in S
      PROVE  OnlyOf(S)'
  BY <1>2, PostedMembers DEF OnlyOf
<1>3. step[t] \notin Over /\ t \notin Claiming => u \in Claiming
  BY <1>1, OnlyActive DEF Order
<1>4. step[t] \in {"approving", "open", "deposit", "opening", "depositing"} =>
        step[t] \notin Over /\ t \notin Claiming
  BY CallsAssumption DEF CallTypes, Over, PlacesOf
<1>5. ASSUME Awaits(t) PROVE Sent(t)'
  <2>1. PICK i \in DOMAIN mempool[Caller(t)] :
          /\ mempool[Caller(t)][i].call = t
          /\ mempool[Caller(t)][i].args = work[t]
          /\ step[t] = WaitFor[mempool[Caller(t)][i].function]
          /\ \A j \in DOMAIN mempool[Caller(t)] :
               /\ mempool[Caller(t)][j].call = t => j = i
               /\ t \notin Claiming /\ j > i => mempool[Caller(t)][j].call \in Claiming
    BY <1>1, <1>5 DEF OrderOf, Sent
  <2>2. step[t] \notin Over
    BY <1>5 DEF Awaits, Waiting, Over
  <2>3. /\ i \in DOMAIN mempool'[Caller(t)] /\ mempool'[Caller(t)][i] = mempool[Caller(t)][i]
        /\ \A j \in DOMAIN mempool'[Caller(t)] :
             \/ j \in DOMAIN mempool[Caller(t)]
                /\ mempool'[Caller(t)][j] = mempool[Caller(t)][j]
             \/ mempool'[Caller(t)][j].call = u
    <3>1. CASE Caller(t) = Caller(u)
      <4>1. LET old == mempool[Caller(u)] IN
            /\ DOMAIN mempool'[Caller(u)] = DOMAIN old \cup {Len(old) + 1}
            /\ \A k \in DOMAIN old : mempool'[Caller(u)][k] = old[k]
            /\ mempool'[Caller(u)][Len(old) + 1] =
                 [call |-> u, function |-> step[u], args |-> work[u]]
        BY Posted
      <4> QED BY <2>1, <3>1, <4>1
    <3>2. CASE Caller(t) # Caller(u)
      <4>1. mempool'[Caller(t)] = mempool[Caller(t)]
        BY <3>2, Posted DEF Caller, Queue
      <4> QED BY <2>1, <4>1
    <3> QED BY <3>1, <3>2
  <2> QED BY <1>1, <1>3, <2>1, <2>2, <2>3 DEF Sent
<1> QED BY <1>1, <1>2, <1>3, <1>4, <1>5 DEF OrderOf, Awaits, Approved

LEMMA StopsOrder ==
  ASSUME CallTypes, NEW t \in Call, Stops(t)
  PROVE  OrderOf(t)'
<1>1. step'[t] \in {"done", "failed"}
  BY DEF Stops, Finish, Goto, CallTypes
<1> QED BY <1>1 DEF OrderOf, Awaits, Approved, Waiting

LEMMA ExecutedReceipt ==
  ASSUME CallTypes, NEW account \in Queue, Execute(account)
  PROVE  LET tx == Head(mempool[account]) IN
         /\ tx \in Tx /\ InMempool(tx) /\ Caller(tx.call) = account
         /\ UNCHANGED <<step, work, rows>>
         /\ \A t \in Call \ {tx.call} : receipt'[t] = receipt[t]
         /\ step[tx.call] \in Waiting => receipt'[tx.call] \in {"success", "reverted"}
         /\ step[tx.call] \notin Waiting => receipt'[tx.call] = receipt[tx.call]
<1> DEFINE tx == Head(mempool[account])
<1>1. tx \in Tx /\ InMempool(tx) /\ Caller(tx.call) = account
  BY Executed, Members2
<1>2. PICK status \in {"success", "reverted"} : Status(tx, status)
  BY DEF Execute
<1> HIDE DEF tx
<1>3. /\ \A t \in Call \ {tx.call} : receipt'[t] = receipt[t]
      /\ step[tx.call] \in Waiting => receipt'[tx.call] = status
      /\ step[tx.call] \notin Waiting => receipt'[tx.call] = receipt[tx.call]
  BY <1>1, <1>2 DEF Status, CallTypes, Tx
<1> QED BY <1>1, <1>3 DEF Execute, tx

LEMMA ExecutesOrder ==
  ASSUME CallTypes, Order, NEW account \in Queue, Execute(account), NEW t \in Call
  PROVE  OrderOf(t)'
<1> DEFINE tx == Head(mempool[account])
           old == mempool[Caller(t)]
<1>1. /\ tx \in Tx /\ InMempool(tx) /\ Caller(tx.call) = account
      /\ UNCHANGED <<step, work>> /\ OrderOf(t) /\ Caller(t) \in Queue
  BY ExecutedReceipt DEF Order, Caller, Queue
<1>2. \A S : OnlyOf(S) => OnlyOf(S)'
  BY ExecutedMembers DEF OnlyOf
<1>3. ASSUME Awaits(t)
      PROVE  \E i \in DOMAIN old :
               /\ old[i].call = t /\ old[i].args = work[t]
               /\ step[t] = WaitFor[old[i].function]
               /\ \A j \in DOMAIN old : /\ old[j].call = t => j = i
                                        /\ t \notin Claiming /\ j > i => old[j].call \in Claiming
  BY <1>1, <1>3 DEF OrderOf, Sent
<1>4. CASE tx.call # t
  <2>1. receipt'[t] = receipt[t]
    BY <1>4, ExecutedReceipt
  <2>2. ASSUME Awaits(t) PROVE Sent(t)'
    <3>1. CASE Caller(t) = account
      <4>1. PICK i \in DOMAIN old :
               /\ old[i].call = t /\ old[i].args = work[t]
               /\ step[t] = WaitFor[old[i].function]
               /\ \A j \in DOMAIN old : /\ old[j].call = t => j = i
                                        /\ t \notin Claiming /\ j > i => old[j].call \in Claiming
        BY <1>3, <2>2
      <4>2. /\ old \in Seq(Tx) /\ tx = old[1]
            /\ \A j \in DOMAIN mempool'[Caller(t)] :
                 /\ j \in Nat \ {0} /\ j + 1 \in DOMAIN old
                 /\ mempool'[Caller(t)][j] = old[j + 1]
            /\ \A j \in DOMAIN old \ {1} :
                 j - 1 \in DOMAIN mempool'[Caller(t)] /\ mempool'[Caller(t)][j - 1] = old[j]
        BY <3>1, Executed
      <4> HIDE DEF tx, old
      <4>3. i # 1 /\ i \in Nat
        BY <1>4, <4>1, <4>2
      <4>4. i - 1 \in DOMAIN mempool'[Caller(t)] /\ mempool'[Caller(t)][i - 1] = old[i]
        BY <4>2, <4>3
      <4>5. \A j \in DOMAIN mempool'[Caller(t)] :
              /\ mempool'[Caller(t)][j].call = t => j = i - 1
              /\ t \notin Claiming /\ j > i - 1 => mempool'[Caller(t)][j].call \in Claiming
        BY <4>1, <4>2, <4>3
      <4> QED BY <1>1, <4>1, <4>4, <4>5 DEF Sent
    <3>2. CASE Caller(t) # account
      <4>1. mempool'[Caller(t)] = mempool[Caller(t)]
        BY <1>1, <3>2, Executed
      <4> QED BY <1>1, <1>3, <2>2, <4>1 DEF Sent
    <3> QED BY <3>1, <3>2
  <2> QED BY <1>1, <1>2, <2>1, <2>2 DEF OrderOf, Awaits, Approved
<1>5. CASE tx.call = t /\ step[t] \in {"done", "failed"}
  BY <1>1, <1>5 DEF OrderOf, Awaits, Approved, Waiting
<1>6. CASE tx.call = t /\ step[t] \notin {"done", "failed"}
  <2>1. Awaits(t)
    BY <1>1, <1>6 DEF OrderOf, OnlyOf
  <2>2. receipt'[t] # "none" /\ Caller(t) = account
    BY <1>1, <1>6, <2>1, ExecutedReceipt DEF Awaits
  <2>3. /\ old \in Seq(Tx) /\ tx = old[1] /\ 1 \in DOMAIN old
        /\ \A j \in DOMAIN mempool'[Caller(t)] :
             /\ j \in Nat \ {0} /\ j + 1 \in DOMAIN old
             /\ mempool'[Caller(t)][j] = old[j + 1]
    BY <2>2, Executed
  <2>4. PICK i \in DOMAIN old :
           \A j \in DOMAIN old : /\ old[j].call = t => j = i
                                 /\ t \notin Claiming /\ j > i => old[j].call \in Claiming
    BY <1>3, <2>1
  <2>5. i = 1
    BY <1>6, <2>3, <2>4
  <2>6. \A j \in DOMAIN mempool'[Caller(t)] :
          /\ mempool'[Caller(t)][j].call # t
          /\ t \notin Claiming => mempool'[Caller(t)][j].call \in Claiming
    <3> HIDE DEF old, tx
    <3> QED BY <2>3, <2>4, <2>5
  <2>7. ASSUME NEW other \in Queue \ {account}, NEW j \in DOMAIN mempool'[other]
        PROVE  /\ mempool'[other][j].call # t
               /\ t \notin Claiming => mempool'[other][j].call \in Claiming
    <3>1. j \in DOMAIN mempool[other] /\ mempool'[other][j] = mempool[other][j]
      BY <2>7, Executed
    <3>2. Caller(mempool[other][j].call) = other
      BY <3>1, Members2
    <3> QED BY <2>2, <3>1, <3>2 DEF Caller, Queue
  <2>8. OnlyOf(Call \ {t})' /\ (t \notin Claiming => OnlyOf(Claiming)')
    BY <2>2, <2>6, <2>7 DEF OnlyOf, InMempool, Tx
  <2>9. step[t] \in {"approving", "open", "deposit"} => t \notin Claiming
    BY CallsAssumption DEF CallTypes, Over, PlacesOf
  <2> QED BY <1>1, <2>2, <2>8, <2>9 DEF OrderOf, Awaits, Approved
<1> QED BY <1>4, <1>5, <1>6

LEMMA StepOrder ==
  ASSUME MaxAtOnce = 1, IInv, CallTypes, Order, [CallsNext]_all
  PROVE  Order'
<1>1. OneActive'
  BY StepOneActive
<1>2. ASSUME NEW t \in Call PROVE OrderOf(t)'
  <2>1. OrderOf(t)
    BY DEF Order
  <2>2. ASSUME NEW u \in Call \ {t}, Starts(u) \/ Walks(u) \/ Stops(u) PROVE OrderOf(t)'
    <3>1. /\ UNCHANGED mempool
          /\ step'[t] = step[t] /\ work'[t] = work[t] /\ receipt'[t] = receipt[t]
      BY <2>2 DEF Starts, Walks, Stops, Finish, Goto, CallTypes
    <3> QED BY <2>1, <3>1, OrderKept
  <2>3. ASSUME Starts(t) \/ Walks(t) \/ Posts(t) \/ Stops(t) PROVE OrderOf(t)'
    BY <2>1, <2>3, StartsOrder, WalksOrder, PostsOrder, StopsOrder
  <2>4. Signing \/ UNCHANGED calls \/ UNCHANGED all => OrderOf(t)'
    BY <2>1, OrderKept DEF Signing, signPayment, calls, all
  <2> QED BY <2>2, <2>3, <2>4, PostsOrderOfOther, ExecutesOrder, Shapes
<1> QED BY <1>1, <1>2 DEF Order

-----------------------------------------------------------------------------
(* Allowances.                                                              *)

Exact == \A t \in Call : Approved(t) => allowance[work[t].token][Payer] = work[t].value

LEMMA ItsTransaction ==
  ASSUME CallTypes, Order, NEW tx \in Tx, InMempool(tx), step[tx.call] \notin {"done", "failed"}
  PROVE  Awaits(tx.call) /\ tx.args = work[tx.call] /\ step[tx.call] = WaitFor[tx.function]
<1> DEFINE t == tx.call
<1>1. t \in Call /\ OrderOf(t)
  BY DEF Order, Tx
<1>2. Awaits(t)
  BY <1>1 DEF OrderOf, OnlyOf
<1>3. PICK i \in DOMAIN mempool[Caller(t)] :
        /\ mempool[Caller(t)][i].args = work[t]
        /\ step[t] = WaitFor[mempool[Caller(t)][i].function]
        /\ \A j \in DOMAIN mempool[Caller(t)] : mempool[Caller(t)][j].call = t => j = i
  BY <1>1, <1>2 DEF OrderOf, Sent
<1>4. \E j \in DOMAIN mempool[Caller(t)] : mempool[Caller(t)][j] = tx
  BY Members DEF InMempool
<1> QED BY <1>2, <1>3, <1>4

LEMMA ApprovedBefore ==
  ASSUME CallTypes, NEW t \in Call, Approved(t)',
         \/ \E u \in Call : Starts(u) \/ Walks(u) \/ Posts(u) \/ Stops(u)
         \/ Signing \/ UNCHANGED calls
  PROVE  Approved(t) /\ work'[t] = work[t]
<1>1. ASSUME NEW u \in Call, Starts(u)
      PROVE  Approved(t) /\ work'[t] = work[t]
  <2>1. step'[u] \in {"approve", "absent?", "claim"}
    BY <1>1 DEF Starts, CallTypes, FirstOf
  <2> QED BY <1>1, <2>1 DEF Starts, CallTypes, Approved
<1>2. ASSUME NEW u \in Call, Walks(u)
      PROVE  Approved(t) /\ work'[t] = work[t]
  BY <1>2 DEF Walks, CallTypes, Approved, Waiting
<1>3. ASSUME NEW u \in Call, Posts(u)
      PROVE  Approved(t) /\ work'[t] = work[t]
  <2>1. step'[u] \in Waiting /\ receipt'[u] = "none"
    BY <1>3 DEF Posts, Sends, Goto, CallTypes, Function, WaitFor, Waiting
  <2> QED BY <1>3, <2>1 DEF Posts, Sends, Goto, CallTypes, Approved, Waiting
<1>4. ASSUME NEW u \in Call, Stops(u)
      PROVE  Approved(t) /\ work'[t] = work[t]
  <2>1. step'[u] \in {"done", "failed"}
    BY <1>4 DEF Stops, Finish, Goto, CallTypes
  <2> QED BY <1>4, <2>1 DEF Stops, Finish, Goto, CallTypes, Approved
<1>5. Signing => UNCHANGED calls
  BY DEF Signing, signPayment
<1>6. UNCHANGED calls => Approved(t) /\ work'[t] = work[t]
  BY DEF calls, Approved
<1> QED BY <1>1, <1>2, <1>3, <1>4, <1>5, <1>6

\* What a claim changes.
LEMMA ClaimOnly ==
  ASSUME CallTypes, NEW tx, InMempool(tx), tx.call \in Claiming, Effect(tx)
  PROVE  tx.function = "claim" /\ claim(Payee, tx.args.id, tx.args.value) /\ UNCHANGED allowance
<1>1. tx.function = "claim"
  BY Members, CallsAssumption DEF FunctionsOf, PlacesOf, Function
<1> QED BY <1>1 DEF Effect, claim, Delete

LEMMA StepExact ==
  ASSUME IInv, CallTypes, Order, Exact, [CallsNext]_all
  PROVE  Exact'
<1>1. ASSUME NEW t \in Call, Approved(t)', UNCHANGED allowance,
             Approved(t) /\ work'[t] = work[t]
      PROVE  allowance'[work'[t].token][Payer] = work'[t].value
  BY <1>1 DEF Exact
<1>2. ASSUME NEW account \in Queue, Execute(account), NEW t \in Call, Approved(t)'
      PROVE  allowance'[work'[t].token][Payer] = work'[t].value
  <2> DEFINE tx == Head(mempool[account])
  <2>1. tx \in Tx /\ InMempool(tx) /\ UNCHANGED <<step, work>>
    BY <1>2, ExecutedReceipt
  <2>2. Effect(tx) \/ (Reverts(tx) /\ UNCHANGED vars)
    BY <1>2 DEF Execute
  <2>3. UNCHANGED vars => UNCHANGED allowance
    BY DEF vars, tokens, funds
  <2>4. CASE Approved(t)
    <3>1. tx.call \in Claiming
      BY <2>1, <2>4 DEF Order, OrderOf, OnlyOf
    <3> HIDE DEF tx
    <3>2. UNCHANGED allowance
      BY <2>1, <2>2, <2>3, <3>1, ClaimOnly
    <3> QED BY <1>1, <1>2, <2>1, <2>4, <3>2
  <2>5. CASE ~Approved(t)
    <3>1. step[t] = "approving" /\ t = tx.call
      BY <1>2, <2>1, <2>5, ExecutedReceipt DEF Approved
    <3>2. tx.args = work[t] /\ WaitFor[tx.function] = "approving"
      BY <2>1, <3>1, ItsTransaction
    <3>3. tx.function = "approve"
      BY <2>1, <3>2 DEF WaitFor, Tx, Function
    <3>4. approve(Payer, work[t].token, work[t].value)
      BY <2>2, <3>2, <3>3 DEF Effect, Reverts
    <3>5. work[t].token \in Token /\ Payer \in Account
      BY <2>1, <3>2, CallsAssumption DEF Tx, Work
    <3> QED BY <2>1, <3>4, <3>5 DEF approve, IInv, TypeOK, TokenTypeOK
  <2> QED BY <2>4, <2>5
<1>3. ASSUME NEW t \in Call, Starts(t) \/ Walks(t) \/ Posts(t) \/ Stops(t) PROVE UNCHANGED allowance
  BY <1>3 DEF Starts, Walks, Posts, Sends, Stops, vars, tokens, funds
<1>4. Signing \/ (Mine /\ UNCHANGED calls) \/ UNCHANGED all => UNCHANGED allowance
  BY DEF Signing, signPayment, Sign, Mine, all, vars, tokens, funds
<1>5. UNCHANGED all => UNCHANGED calls
  BY DEF all
<1> QED BY <1>1, <1>2, <1>3, <1>4, <1>5, Shapes, ApprovedBefore DEF Exact

LEMMA OrderInvariance ==
  ASSUME MaxAtOnce = 1
  PROVE  CallsSpec => [](Order /\ Exact)
<1>1. CallsInit => Order /\ Exact
  <2> SUFFICES ASSUME CallsInit PROVE Order /\ Exact
    OBVIOUS
  <2>1. \A t \in Call : step[t] = "idle"
    BY DEF CallsInit
  <2>2. \A S : OnlyOf(S)
    BY DEF CallsInit, OnlyOf, InMempool, Queue
  <2>3. Active = {} /\ \A t \in Call : ~Awaits(t) /\ ~Approved(t)
    BY <2>1 DEF Active, Over, Awaits, Approved, Waiting
  <2>4. OneActive /\ Exact
    BY <2>3 DEF OneActive, Exact
  <2>5. \A t \in Call : OrderOf(t)
    BY <2>1, <2>2, <2>3 DEF OrderOf
  <2> QED BY <2>4, <2>5 DEF Order
<1>2. IInv /\ CallTypes /\ Order /\ Exact /\ [CallsNext]_all => Order' /\ Exact'
  BY StepOrder, StepExact
<1> QED BY <1>1, <1>2, CallTypesInvariance, PTL DEF CallsSpec

(* With one call of the payer at a time, when a call is about to open or    *)
(* deposit, the allowance is exactly what that call is for: whatever        *)
(* approvals and transfers earlier calls left in the mempool, refused or    *)
(* waited for in vain, they were mined before the approval of this one.     *)
THEOREM AllowanceStaysExact ==
  ASSUME MaxAtOnce = 1
  PROVE  CallsSpec => []AllowanceIsExact
<1>1. Exact => AllowanceIsExact
  BY DEF Exact, Approved, AllowanceIsExact, Active
<1> QED BY <1>1, OrderInvariance, PTL

-----------------------------------------------------------------------------
(* A channel that is being opened is nobody else's business.                *)

\* Nobody pauses the contract, and every channel is between the two.
Ours == /\ ~paused
        /\ \A id \in Id : isPresent(id) =>
             /\ channels[id].sender = Payer /\ channels[id].receiver = Payee
             /\ channels[id].settlingPeriod = SettlementPeriod

Opened(args) == [sender |-> Payer, receiver |-> Payee, value |-> args.value,
                 settlingPeriod |-> SettlementPeriod, settlingUntil |-> 0,
                 tokenContract |-> args.token]

LEMMA EffectOnChannels ==
  ASSUME IInv, NEW tx \in Tx, Effect(tx), NEW id \in Id
  PROVE  /\ UNCHANGED <<number, paused, signed>>
         /\ tx.args.id # id => channels'[id] = channels[id]
         /\ tx.function = "open" /\ tx.args.id = id =>
              isAbsent(id) /\ channels'[id] = Opened(tx.args)
         /\ tx.function # "open" =>
              \/ channels'[id] = channels[id]
              \/ channels'[id] = Deleted
              \/ /\ isPresent(id)
                 /\ channels'[id].sender = channels[id].sender
                 /\ channels'[id].receiver = channels[id].receiver
                 /\ channels'[id].settlingPeriod = channels[id].settlingPeriod
                 /\ channels'[id].tokenContract = channels[id].tokenContract
<1> DEFINE arg == tx.args.id
<1>1. channels \in [Id -> PaymentChannel] /\ arg \in Id
  BY DEF IInv, TypeOK, Tx, Work
<1>2. channels[id] \in PaymentChannel
  BY <1>1
<1>3. CASE tx.function = "approve"
  BY <1>3 DEF Effect, approve, contract, Tx
<1>4. CASE tx.function = "open"
  <2>1. open(Payer, arg, Payee, SettlementPeriod, tx.args.token, tx.args.value)
    BY <1>4 DEF Effect
  <2> HIDE DEF arg
  <2>2. isAbsent(arg) /\ channels' = [channels EXCEPT ![arg] = Opened(tx.args)]
    BY <2>1 DEF open, mayOpen, Opened
  <2> QED BY <1>1, <1>4, <2>1, <2>2 DEF open, arg
<1>5. CASE tx.function = "deposit"
  <2>1. deposit(Payer, arg, tx.args.value)
    BY <1>5 DEF Effect
  <2> HIDE DEF arg
  <2>2. isPresent(arg) /\ channels' = [channels EXCEPT ![arg].value = @ + tx.args.value]
    BY <2>1 DEF deposit, mayDeposit, canDeposit, isOpen
  <2> QED BY <1>1, <1>2, <1>5, <2>1, <2>2 DEF deposit, arg, PaymentChannel
<1>6. CASE tx.function = "startSettling"
  <2>1. startSettling(Payer, arg)
    BY <1>6 DEF Effect
  <2> HIDE DEF arg
  <2>2. isPresent(arg)
    BY <2>1 DEF startSettling, mayStartSettling, canStartSettling, isOpen
  <2> QED BY <1>1, <1>2, <1>6, <2>1, <2>2 DEF startSettling, arg, PaymentChannel, tokens
<1>7. CASE tx.function = "settle"
  <2>1. settle(arg)
    BY <1>7 DEF Effect
  <2> HIDE DEF arg
  <2> QED BY <1>1, <1>7, <2>1 DEF settle, Delete, arg
<1>8. CASE tx.function = "claim"
  <2>1. claim(Payee, arg, tx.args.value)
    BY <1>8 DEF Effect
  <2> HIDE DEF arg
  <2> QED BY <1>1, <1>8, <2>1 DEF claim, Delete, arg
<1> QED BY <1>3, <1>4, <1>5, <1>6, <1>7, <1>8 DEF Effect

\* A channel appears by an "open" that is mined, and in no other way.
LEMMA AbsentKept ==
  ASSUME IInv, CallTypes, [CallsNext]_all, NEW id \in Id, isAbsent(id),
         \A account \in Queue : Execute(account) =>
           LET tx == Head(mempool[account]) IN ~(tx.function = "open" /\ tx.args.id = id)
  PROVE  isAbsent(id)'
<1>1. ASSUME NEW account \in Queue, Execute(account) PROVE isAbsent(id)'
  <2> DEFINE tx == Head(mempool[account])
  <2>1. tx \in Tx /\ (Effect(tx) \/ UNCHANGED vars) /\ ~(tx.function = "open" /\ tx.args.id = id)
    BY <1>1, ExecutedReceipt DEF Execute
  <2> HIDE DEF tx
  <2>2. CASE Effect(tx)
    BY <2>1, <2>2, EffectOnChannels, DeletedType DEF isAbsent, isPresent
  <2>3. CASE UNCHANGED vars
    BY <2>3 DEF vars, contract, isAbsent
  <2> QED BY <2>1, <2>2, <2>3
<1>2. UNCHANGED channels => isAbsent(id)'
  BY DEF isAbsent
<1>3. ASSUME NEW t \in Call, Starts(t) \/ Walks(t) \/ Posts(t) \/ Stops(t)
      PROVE  UNCHANGED channels
  BY <1>3 DEF Starts, Walks, Posts, Sends, Stops, vars, contract
<1>4. Signing \/ Mine \/ UNCHANGED all => UNCHANGED channels
  BY DEF Signing, signPayment, Sign, Mine, all, vars, contract
<1> QED BY <1>1, <1>2, <1>3, <1>4, Shapes

LEMMA StepOurs == IInv /\ CallTypes /\ Ours /\ [CallsNext]_all => Ours'
<1> SUFFICES ASSUME IInv, CallTypes, Ours, [CallsNext]_all PROVE Ours'
  OBVIOUS
<1>1. ASSUME NEW account \in Queue, Execute(account) PROVE Ours'
  <2> DEFINE tx == Head(mempool[account])
  <2>1. tx \in Tx /\ (Effect(tx) \/ UNCHANGED vars)
    BY <1>1, ExecutedReceipt DEF Execute
  <2> HIDE DEF tx
  <2>2. CASE Effect(tx)
    <3>1. ~paused'
      <4>1. tx.args.id \in Id
        BY <2>1 DEF Tx, Work
      <4> QED BY <2>1, <2>2, <4>1, EffectOnChannels DEF Ours
    <3>2. ASSUME NEW id \in Id, isPresent(id)'
          PROVE  /\ channels'[id].sender = Payer /\ channels'[id].receiver = Payee
                 /\ channels'[id].settlingPeriod = SettlementPeriod
      <4>1. channels'[id] # Deleted
        BY <3>2, DeletedType DEF isPresent, isAbsent
      <4>2. CASE tx.function = "open" /\ tx.args.id = id
        <5>1. channels'[id] = Opened(tx.args)
          BY <2>1, <2>2, <4>2, EffectOnChannels
        <5> QED BY <5>1 DEF Opened
      <4>3. CASE ~(tx.function = "open" /\ tx.args.id = id)
        BY <2>1, <2>2, <3>2, <4>1, <4>3, EffectOnChannels DEF Ours, isPresent, isAbsent
      <4> QED BY <4>2, <4>3
    <3> QED BY <3>1, <3>2 DEF Ours
  <2>3. CASE UNCHANGED vars
    BY <2>3 DEF vars, contract, isPresent, isAbsent, Ours
  <2> QED BY <2>1, <2>2, <2>3
<1>2. UNCHANGED <<channels, paused>> => Ours'
  BY DEF Ours, isPresent, isAbsent
<1>3. ASSUME NEW t \in Call, Starts(t) \/ Walks(t) \/ Posts(t) \/ Stops(t)
      PROVE  UNCHANGED <<channels, paused>>
  BY <1>3 DEF Starts, Walks, Posts, Sends, Stops, vars, contract
<1>4. Signing \/ Mine \/ UNCHANGED all => UNCHANGED <<channels, paused>>
  BY DEF Signing, signPayment, Sign, Mine, all, vars, contract
<1> QED BY <1>1, <1>2, <1>3, <1>4, Shapes

\* Only call t has to do with channel id.
Alone(t, id) ==
  /\ ~Familiar(id)
  /\ \A u \in Call \ {t} : work[u].id # id
  /\ \A tx \in Tx : InMempool(tx) /\ tx.args.id = id => tx.call = t

LEMMA FreshIsUnknown ==
  ASSUME NEW id, Fresh(id)
  PROVE  /\ ~Familiar(id)
         /\ \A t \in Call : work[t].id # id
         /\ \A tx : InMempool(tx) => tx.args.id # id
BY DEF Fresh, Familiar, InMempool, Queue

LEMMA AloneKept ==
  ASSUME IInv, CallTypes, [CallsNext]_all, NEW t \in Call, NEW id \in Id,
         Alone(t, id), ~Fresh(id), Stops(t) => rows' = rows
  PROVE  Alone(t, id)'
<1>1. ASSUME UNCHANGED <<rows, signed>> PROVE ~Familiar(id)'
  BY <1>1 DEF Alone, Familiar, Knows
<1>2. ASSUME NEW u \in Call, Starts(u) PROVE Alone(t, id)'
  <2>1. PICK args \in Work :
          /\ work' = [work EXCEPT ![u] = args]
          /\ IF u \in Opening THEN Fresh(args.id) ELSE Familiar(args.id)
    BY <1>2 DEF Starts
  <2>2. args.id # id
    BY <2>1 DEF Alone
  <2>3. UNCHANGED <<mempool, rows, signed>>
    BY <1>2 DEF Starts, vars, contract
  <2> QED BY <1>1, <2>1, <2>2, <2>3 DEF Alone, InMempool, CallTypes
<1>3. ASSUME NEW u \in Call, Walks(u) PROVE Alone(t, id)'
  BY <1>1, <1>3 DEF Walks, Alone, InMempool, vars, contract
<1>4. ASSUME NEW u \in Call, Posts(u) PROVE Alone(t, id)'
  <2>1. UNCHANGED <<work, rows, signed>>
    BY <1>4 DEF Posts, Sends, vars, contract
  <2>2. ASSUME NEW tx \in Tx, InMempool(tx)', tx.args.id = id PROVE tx.call = t
    <3>1. InMempool(tx) \/ (tx.call = u /\ tx.args = work[u])
      BY <1>4, <2>2, PostedMembers
    <3> QED BY <2>2, <3>1 DEF Alone
  <2> QED BY <1>1, <2>1, <2>2 DEF Alone
<1>5. ASSUME NEW u \in Call, Stops(u) PROVE Alone(t, id)'
  <2>1. /\ work' = [work EXCEPT ![u] = Nothing]
        /\ UNCHANGED <<mempool, signed>>
    BY <1>5 DEF Stops, Finish, vars, contract
  <2>2. Nothing.id # id
    BY CallsAssumption DEF Nothing
  <2>3. ASSUME NEW row \in rows' PROVE row.id # id
    <3>1. CASE row \in rows
      BY <3>1 DEF Alone, Familiar, Knows
    <3>2. CASE row \notin rows
      <4>1. u # t /\ row.id = work[u].id
        BY <1>5, <2>3, <3>2 DEF Stops
      <4> QED BY <4>1 DEF Alone
    <3> QED BY <3>1, <3>2
  <2>4. ~Familiar(id)'
    BY <2>1, <2>3 DEF Alone, Familiar, Knows
  <2> QED BY <2>1, <2>2, <2>4 DEF Alone, InMempool, CallTypes
<1>6. ASSUME NEW account \in Queue, Execute(account) PROVE Alone(t, id)'
  <2> DEFINE tx == Head(mempool[account])
  <2>1. tx \in Tx /\ (Effect(tx) \/ UNCHANGED vars) /\ UNCHANGED <<work, rows>>
    BY <1>6, ExecutedReceipt DEF Execute
  <2> HIDE DEF tx
  <2>2. UNCHANGED signed
    BY <2>1, EffectOnChannels DEF vars, contract
  <2>3. \A x : InMempool(x)' => InMempool(x)
    BY <1>6, ExecutedMembers
  <2> QED BY <1>1, <2>1, <2>2, <2>3 DEF Alone
<1>7. CASE Signing
  <2>1. PICK row \in rows, amount \in Promise : signPayment(row, amount)
    BY <1>7 DEF Signing
  <2>2. row.id # id
    BY <2>1 DEF Alone, Familiar, Knows
  <2>3. UNCHANGED <<work, mempool, rows>> /\ \A promise \in signed' :
          promise \in signed \/ promise.id = row.id
    BY <2>1 DEF signPayment, Sign, calls
  <2> QED BY <2>2, <2>3 DEF Alone, Familiar, Knows, InMempool
<1>8. (Mine /\ UNCHANGED calls) \/ UNCHANGED all => UNCHANGED <<work, mempool, rows, signed>>
  BY DEF Mine, all, calls, vars, contract
<1>9. UNCHANGED <<work, mempool, rows, signed>> => Alone(t, id)'
  BY <1>1 DEF Alone, InMempool
<1> QED BY <1>2, <1>3, <1>4, <1>5, <1>6, <1>7, <1>8, <1>9, Shapes

Private ==
  /\ \A t \in Opening : step[t] \notin Over => Alone(t, work[t].id)
  /\ \A t \in Opening : step[t] \in {"approve", "approving", "open"} => isAbsent(work[t].id)
  /\ \A tx \in Tx : InMempool(tx) /\ tx.function = "open" =>
       Alone(tx.call, tx.args.id) /\ isAbsent(tx.args.id)

OpensOnce ==
  \A account \in Queue : \A i, j \in DOMAIN mempool[account] :
    /\ mempool[account][i].function = "open" /\ mempool[account][j].function = "open"
    /\ mempool[account][i].call = mempool[account][j].call
    => i = j

LEMMA StepOpensOnce == IInv /\ CallTypes /\ Order /\ OpensOnce /\ [CallsNext]_all => OpensOnce'
<1> SUFFICES ASSUME IInv, CallTypes, Order, OpensOnce, [CallsNext]_all,
                    NEW account \in Queue, NEW i, NEW j, NEW queue, queue = mempool'[account],
                    i \in DOMAIN queue, j \in DOMAIN queue,
                    queue[i].function = "open", queue[j].function = "open",
                    queue[i].call = queue[j].call
             PROVE  i = j
  BY DEF OpensOnce
<1>1. CASE mempool'[account] = mempool[account]
  BY <1>1 DEF OpensOnce
<1>2. ASSUME NEW t \in Call, Posts(t) PROVE i = j
  <2> DEFINE old == mempool[Caller(t)]
             new == [call |-> t, function |-> step[t], args |-> work[t]]
  <2>1. /\ DOMAIN mempool'[Caller(t)] = DOMAIN old \cup {Len(old) + 1}
        /\ \A k \in DOMAIN old : mempool'[Caller(t)][k] = old[k]
        /\ mempool'[Caller(t)][Len(old) + 1] = new
        /\ \A other \in Queue \ {Caller(t)} : mempool'[other] = mempool[other]
    BY <1>2, Posted
  <2>2. CASE account # Caller(t)
    BY <1>1, <2>1, <2>2
  <2>3. CASE account = Caller(t) /\ step[t] # "open"
    <3>1. i \in DOMAIN old /\ j \in DOMAIN old /\ queue[i] = old[i] /\ queue[j] = old[j]
      BY <2>1, <2>3
    <3> QED BY <2>3, <3>1 DEF OpensOnce
  <2>4. CASE account = Caller(t) /\ step[t] = "open"
    <3>1. OnlyOf(Claiming)
      BY <2>4 DEF Order, OrderOf, Approved
    <3>2. \A k \in DOMAIN old : old[k].function # "open"
      <4> SUFFICES ASSUME NEW k \in DOMAIN old, old[k].function = "open" PROVE FALSE
        OBVIOUS
      <4>1. InMempool(old[k]) /\ old[k] \in Tx
        BY <2>4, Members2
      <4>2. old[k].call \in Opening /\ old[k].call \in Claiming
        BY <3>1, <4>1, FunctionOfCall DEF OnlyOf
      <4> QED BY <4>2, CallsAssumption
    <3> QED BY <2>1, <2>4, <3>2
  <2> QED BY <2>2, <2>3, <2>4
<1>3. ASSUME NEW other \in Queue, Execute(other) PROVE i = j
  <2>1. CASE other = account
    <3>1. /\ i \in Nat /\ i + 1 \in DOMAIN mempool[account] /\ queue[i] = mempool[account][i + 1]
          /\ j \in Nat /\ j + 1 \in DOMAIN mempool[account] /\ queue[j] = mempool[account][j + 1]
      BY <1>3, <2>1, Executed
    <3>2. i + 1 = j + 1
      BY <3>1 DEF OpensOnce
    <3> QED BY <3>1, <3>2
  <2>2. CASE other # account
    BY <1>1, <1>3, <2>2, Executed
  <2> QED BY <2>1, <2>2
<1>4. ASSUME NEW t \in Call, Starts(t) \/ Walks(t) \/ Stops(t) PROVE UNCHANGED mempool
  BY <1>4 DEF Starts, Walks, Stops
<1>5. Signing \/ UNCHANGED calls \/ UNCHANGED all => UNCHANGED mempool
  BY DEF Signing, signPayment, calls, all
<1> QED BY <1>1, <1>2, <1>3, <1>4, <1>5, Shapes

\* A call that is under way after a step has started in it, or was already.
LEMMA UnderWay ==
  ASSUME IInv, CallTypes, [CallsNext]_all, NEW t \in Call, step'[t] \notin Over
  PROVE  \/ Starts(t)
         \/ /\ step[t] \notin Over /\ work'[t] = work[t]
            /\ step'[t] \in {"approve", "approving", "open"} =>
                 step[t] \in {"approve", "approving", "open"}
<1>1. ASSUME NEW u \in Call, Walks(u) PROVE step[u] \notin Over /\ UNCHANGED work
  BY <1>1 DEF Walks, Over
<1>2. ASSUME NEW u \in Call, Posts(u) PROVE step[u] \notin Over /\ UNCHANGED work
  BY <1>2 DEF Posts, Sends, Over, Function
<1>3. ASSUME NEW u \in Call \ {t}, Starts(u) \/ Walks(u) \/ Posts(u) \/ Stops(u)
      PROVE  step'[t] = step[t] /\ work'[t] = work[t]
  BY <1>3 DEF Starts, Walks, Posts, Sends, Stops, Finish, Goto, CallTypes
<1>4. CASE Walks(t)
  <2>1. step'[t] \in {"approve", "approving", "open"} => step[t] = "approving"
    BY <1>4, CallsAssumption DEF Walks, CallTypes, Waiting
  <2> QED BY <1>1, <1>4, <2>1
<1>5. CASE Posts(t)
  <2>1. step'[t] \in {"approve", "approving", "open"} => step[t] = "approve"
    BY <1>5 DEF Posts, Sends, Goto, CallTypes, WaitFor, Function
  <2> QED BY <1>2, <1>5, <2>1
<1>6. ~Stops(t)
  BY DEF Stops, Finish, Goto, CallTypes, Over
<1>7. ASSUME NEW account \in Queue, Execute(account) PROVE step' = step /\ work' = work
  BY <1>7 DEF Execute
<1>8. Signing \/ UNCHANGED calls \/ UNCHANGED all => step' = step /\ work' = work
  BY DEF Signing, signPayment, calls, all
<1> QED BY <1>3, <1>4, <1>5, <1>6, <1>7, <1>8, Shapes

LEMMA StepPrivate ==
  ASSUME IInv, CallTypes, Order, Private, OpensOnce, [CallsNext]_all
  PROVE  Private'
<1>1. ASSUME NEW t \in Opening, step'[t] \notin Over, NEW id, id = work'[t].id
      PROVE  /\ Alone(t, id)'
             /\ step'[t] \in {"approve", "approving", "open"} => isAbsent(id)'
  <2>0. t \in Call
    BY DEF Call
  <2>1. CASE Starts(t)
    <3>1. PICK args \in Work : work' = [work EXCEPT ![t] = args] /\ Fresh(args.id)
      BY <2>1 DEF Starts
    <3>2. args.id = id
      BY <1>1, <2>0, <3>1 DEF CallTypes
    <3>3. /\ ~Familiar(args.id)
          /\ \A u \in Call : work[u].id # args.id
          /\ \A tx : InMempool(tx) => tx.args.id # args.id
      BY <3>1, FreshIsUnknown
    <3>4. UNCHANGED <<mempool, rows, signed, channels>>
      BY <2>1 DEF Starts, vars, contract
    <3>5. Alone(t, args.id)' /\ isAbsent(args.id)'
      BY <2>0, <3>1, <3>3, <3>4 DEF Alone, Familiar, Knows, InMempool, Fresh, isAbsent, CallTypes
    <3> QED BY <3>2, <3>5
  <2>2. CASE ~Starts(t)
    <3>1. /\ step[t] \notin Over /\ work'[t] = work[t]
          /\ step'[t] \in {"approve", "approving", "open"} =>
               step[t] \in {"approve", "approving", "open"}
      BY <1>1, <2>0, <2>2, UnderWay
    <3>2. id \in Id /\ id = work[t].id
      BY <1>1, <2>0, <3>1 DEF CallTypes, Work
    <3>3. Alone(t, id)
      BY <3>1, <3>2 DEF Private
    <3>4. ~Stops(t)
      BY <1>1, <2>0 DEF Stops, Finish, Goto, CallTypes, Over
    <3>5. ~Fresh(id)
      BY <2>0, <3>2 DEF Fresh
    <3>6. Alone(t, id)'
      BY <2>0, <3>2, <3>3, <3>4, <3>5, AloneKept
    <3>7. ASSUME step[t] \in {"approve", "approving", "open"} PROVE isAbsent(id)'
      <4>1. ASSUME NEW account \in Queue, Execute(account), NEW tx, tx = Head(mempool[account]),
                   tx.function = "open", tx.args.id = id
            PROVE  FALSE
        <5>1. tx \in Tx /\ InMempool(tx)
          BY <4>1, ExecutedReceipt
        <5>2. tx.call = t
          BY <3>3, <4>1, <5>1 DEF Alone
        <5>3. step[t] = WaitFor[tx.function]
          BY <3>7, <5>1, <5>2, ItsTransaction
        <5> QED BY <3>7, <4>1, <5>3 DEF WaitFor
      <4>2. isAbsent(id)
        BY <3>2, <3>7 DEF Private
      <4> QED BY <3>2, <4>1, <4>2, AbsentKept
    <3> QED BY <3>1, <3>2, <3>6, <3>7
  <2> QED BY <2>1, <2>2
<1>2. ASSUME NEW tx \in Tx, InMempool(tx), InMempool(tx)', tx.function = "open"
      PROVE  Alone(tx.call, tx.args.id)' /\ isAbsent(tx.args.id)'
  <2> DEFINE id == tx.args.id
             t == tx.call
  <2>1. id \in Id /\ t \in Call /\ Alone(t, id) /\ isAbsent(id)
    BY <1>2 DEF Tx, Work, Private
  <2>2. ~Fresh(id)
    BY <1>2, FreshIsUnknown
  <2>3. ASSUME Stops(t) PROVE rows' = rows
    <3>1. CASE step[t] = "opening" /\ receipt[t] # "none"
      <4>1. OnlyOf(Call \ {t})
        BY <2>1, <3>1 DEF Order, OrderOf, Awaits
      <4> QED BY <1>2, <4>1 DEF OnlyOf
    <3> QED BY <2>3, <3>1 DEF Stops
  <2>4. ASSUME NEW account \in Queue, Execute(account), NEW x, x = Head(mempool[account]),
               x.function = "open", x.args.id = id
        PROVE  FALSE
    <3>1. x \in Tx /\ InMempool(x) /\ x.call = t /\ Caller(t) = account /\ x = mempool[account][1]
      BY <2>1, <2>4, ExecutedReceipt, Executed DEF Alone
    <3>2. PICK other \in Queue : \E i \in DOMAIN mempool'[other] : mempool'[other][i] = tx
      BY <1>2 DEF InMempool
    <3>3. PICK i \in DOMAIN mempool'[other] : mempool'[other][i] = tx
      BY <3>2
    <3>4. CallTypes'
      BY <2>4, ExecutedTypes
    <3>5. other = account
      BY <3>1, <3>3, <3>4 DEF CallTypes
    <3>6. i \in Nat \ {0} /\ i + 1 \in DOMAIN mempool[account] /\ mempool[account][i + 1] = tx
          /\ 1 \in DOMAIN mempool[account]
      BY <2>4, <3>3, <3>5, Executed
    <3>7. i + 1 = 1
      BY <1>2, <2>4, <3>1, <3>6 DEF OpensOnce
    <3> QED BY <3>6, <3>7
  <2> HIDE DEF id, t
  <2>5. Alone(t, id)'
    BY <2>1, <2>2, <2>3, AloneKept
  <2>6. isAbsent(id)'
    BY <2>1, <2>4, AbsentKept
  <2> QED BY <2>5, <2>6 DEF id, t
<1>3. ASSUME NEW tx \in Tx, ~InMempool(tx), InMempool(tx)', tx.function = "open"
      PROVE  Alone(tx.call, tx.args.id)' /\ isAbsent(tx.args.id)'
  <2>1. \A account \in Queue : ~Execute(account)
    BY <1>3, ExecutedMembers
  <2>2. ~ UNCHANGED mempool
    BY <1>3 DEF InMempool
  <2>3. ASSUME NEW t \in Call, Starts(t) \/ Walks(t) \/ Stops(t) PROVE UNCHANGED mempool
    BY <2>3 DEF Starts, Walks, Stops
  <2>4. Signing \/ UNCHANGED calls \/ UNCHANGED all => UNCHANGED mempool
    BY DEF Signing, signPayment, calls, all
  <2>5. PICK t \in Call : Posts(t)
    BY <2>1, <2>2, <2>3, <2>4, Shapes
  <2>6. tx = [call |-> t, function |-> step[t], args |-> work[t]]
    BY <1>3, <2>5, PostedMembers
  <2>7. tx.call = t /\ tx.args = work[t] /\ step[t] = "open"
    BY <1>3, <2>6
  <2>8. t \in Opening
    BY <2>7, CallsAssumption DEF CallTypes, Over, PlacesOf
  <2>9. step'[t] = "opening" /\ UNCHANGED <<work, channels>>
    BY <2>5, <2>7 DEF Posts, Sends, Goto, CallTypes, WaitFor, vars, contract
  <2>10. ASSUME NEW id, id = work[t].id PROVE Alone(t, id)'
    BY <1>1, <2>8, <2>9, <2>10 DEF Over
  <2>11. isAbsent(work[t].id)
    BY <2>7, <2>8 DEF Private
  <2> QED BY <2>7, <2>9, <2>10, <2>11 DEF isAbsent
<1>4. \A t \in Opening : step'[t] \notin Over => Alone(t, work[t].id)'
  BY <1>1
<1>5. \A t \in Opening : step'[t] \in {"approve", "approving", "open"} => isAbsent(work[t].id)'
  <2>1. {"approve", "approving", "open"} \cap Over = {}
    BY DEF Over
  <2> QED BY <1>1, <2>1
<1> QED BY <1>2, <1>3, <1>4, <1>5 DEF Private

-----------------------------------------------------------------------------
(* All that names a channel names it with one token.                        *)

Agreed == \A id \in Id, x, y \in Token : Mentions(id, x) /\ Mentions(id, y) => x = y

\* Only an opening names a channel that nothing named, and it is the only one.
LEMMA NewMention ==
  ASSUME IInv, CallTypes, [CallsNext]_all, NEW id \in Id, NEW token \in Token,
         Mentions(id, token)', ~Mentions(id, token)
  PROVE  \E t \in Call : Starts(t) /\ Fresh(id) /\ work'[t].token = token
<1>1. ASSUME NEW tx \in Tx, InMempool(tx), tx.args.id = id, tx.args.token = token
      PROVE  FALSE
  BY <1>1 DEF Mentions
<1>2. ASSUME NEW t \in Call, Starts(t)
      PROVE  Fresh(id) /\ work'[t].token = token
  <2>1. PICK args \in Work :
          /\ work' = [work EXCEPT ![t] = args]
          /\ IF t \in Opening THEN Fresh(args.id) ELSE Mentions(args.id, args.token)
    BY <1>2 DEF Starts
  <2>2. UNCHANGED <<channels, rows, signed, mempool>>
    BY <1>2 DEF Starts, vars, contract
  <2>3. PICK u \in Call : work'[u].id = id /\ work'[u].token = token
    BY <2>2 DEF Mentions, InMempool, isPresent, isAbsent
  <2>4. u = t
    BY <2>1, <2>3 DEF CallTypes, Mentions
  <2>5. args.id = id /\ args.token = token /\ work'[t].token = token
    BY <2>1, <2>3, <2>4 DEF CallTypes
  <2> QED BY <2>1, <2>5
<1>3. ASSUME NEW t \in Call, Walks(t) PROVE FALSE
  <2>1. UNCHANGED <<channels, rows, signed, mempool, work>>
    BY <1>3 DEF Walks, vars, contract
  <2> QED BY <2>1 DEF Mentions, InMempool, isPresent, isAbsent
<1>4. ASSUME NEW t \in Call, Posts(t) PROVE FALSE
  <2>1. UNCHANGED <<channels, rows, signed, work>>
    BY <1>4 DEF Posts, Sends, vars, contract
  <2>2. PICK tx \in Tx : InMempool(tx)' /\ tx.args.id = id /\ tx.args.token = token
    BY <2>1 DEF Mentions, isPresent, isAbsent
  <2>3. tx.args = work[t]
    BY <1>1, <1>4, <2>2, PostedMembers
  <2> QED BY <2>2, <2>3 DEF Mentions
<1>5. ASSUME NEW t \in Call, Stops(t) PROVE FALSE
  <2>1. /\ work' = [work EXCEPT ![t] = Nothing]
        /\ UNCHANGED <<channels, signed, mempool>>
    BY <1>5 DEF Stops, Finish, vars, contract
  <2>2. ~ \E u \in Call : work'[u].id = id /\ work'[u].token = token
    BY <2>1, CallsAssumption DEF CallTypes, Mentions, Nothing
  <2>3. [id |-> id, token |-> token] \in rows'
    BY <2>1, <2>2 DEF Mentions, InMempool, isPresent, isAbsent
  <2>4. [id |-> id, token |-> token] = [id |-> work[t].id, token |-> work[t].token]
    BY <1>5, <2>3 DEF Stops, Mentions
  <2> QED BY <2>4 DEF Mentions
<1>6. ASSUME NEW account \in Queue, Execute(account) PROVE FALSE
  <2> DEFINE tx == Head(mempool[account])
  <2>1. tx \in Tx /\ InMempool(tx) /\ (Effect(tx) \/ UNCHANGED vars) /\ UNCHANGED <<work, rows>>
    BY <1>6, ExecutedReceipt DEF Execute
  <2>2. \A x : InMempool(x)' => InMempool(x)
    BY <1>6, ExecutedMembers
  <2> HIDE DEF tx
  <2>3. UNCHANGED signed
    BY <2>1, EffectOnChannels DEF vars, contract
  <2>4. isPresent(id)' /\ channels'[id].tokenContract = token
    BY <2>1, <2>2, <2>3 DEF Mentions
  <2>5. channels'[id] # channels[id] /\ channels'[id] # Deleted
    BY <2>4, DeletedType DEF Mentions, isPresent, isAbsent
  <2>6. Effect(tx)
    BY <2>1, <2>5 DEF vars, contract
  <2>7. tx.args.id = id /\ (tx.function # "open" => isPresent(id) /\ channels[id].tokenContract = token)
    BY <2>1, <2>4, <2>5, <2>6, EffectOnChannels
  <2>8. CASE tx.function = "open"
    <3>1. channels'[id] = Opened(tx.args)
      BY <2>1, <2>6, <2>7, <2>8, EffectOnChannels
    <3>2. tx.args.token = token
      BY <2>4, <3>1 DEF Opened
    <3> QED BY <1>1, <2>1, <2>7, <3>2
  <2> QED BY <2>7, <2>8 DEF Mentions
<1>7. CASE Signing
  <2>1. PICK row \in rows, amount \in Promise : signPayment(row, amount)
    BY <1>7 DEF Signing
  <2>2. UNCHANGED <<channels, work, mempool, rows>>
        /\ signed' = signed \cup {[signer |-> Payer, id |-> row.id, amount |-> amount,
                                   token |-> row.token]}
    BY <2>1 DEF signPayment, Sign, calls
  <2>3. row.id = id /\ row.token = token
    BY <2>2 DEF Mentions, InMempool, isPresent, isAbsent
  <2>4. row = [id |-> id, token |-> token]
    BY <2>3 DEF CallTypes
  <2> QED BY <2>4 DEF Mentions
<1>8. (Mine /\ UNCHANGED calls) \/ UNCHANGED all =>
        UNCHANGED <<channels, rows, signed, mempool, work>>
  BY DEF Mine, all, calls, vars, contract
<1>9. ~ UNCHANGED <<channels, rows, signed, mempool, work>>
  BY DEF Mentions, InMempool, isPresent, isAbsent
<1> QED BY <1>2, <1>3, <1>4, <1>5, <1>6, <1>7, <1>8, <1>9, Shapes

LEMMA NothingMentioned ==
  ASSUME NEW id \in Id, Fresh(id), NEW token, Mentions(id, token)
  PROVE  FALSE
BY FreshIsUnknown DEF Mentions, Fresh, Knows, isPresent

LEMMA StepAgreed == IInv /\ CallTypes /\ Agreed /\ [CallsNext]_all => Agreed'
<1> SUFFICES ASSUME IInv, CallTypes, Agreed, [CallsNext]_all, NEW id \in Id,
                    NEW x \in Token, NEW y \in Token, Mentions(id, x)', Mentions(id, y)'
             PROVE  x = y
  BY DEF Agreed
<1>1. CASE Mentions(id, x) /\ Mentions(id, y)
  BY <1>1 DEF Agreed
<1>2. ASSUME ~Mentions(id, x) \/ ~Mentions(id, y) PROVE x = y
  <2>1. Fresh(id) /\ \E t \in Call : Starts(t)
    BY <1>2, NewMention
  <2>2. ~Mentions(id, x) /\ ~Mentions(id, y)
    BY <2>1, NothingMentioned
  <2>3. PICK t \in Call : Starts(t) /\ work'[t].token = x
    BY <2>2, NewMention
  <2>4. PICK u \in Call : Starts(u) /\ work'[u].token = y
    BY <2>2, NewMention
  <2>5. t = u
    <3>1. step'[t] # "idle" /\ step[t] = "idle"
      BY <2>3 DEF Starts, CallTypes, FirstOf
    <3> QED BY <2>4, <3>1 DEF Starts, CallTypes
  <2> QED BY <2>3, <2>4, <2>5
<1> QED BY <1>1, <1>2

-----------------------------------------------------------------------------
(* Refusals. *)

Owned == Ours /\ Private /\ OpensOnce /\ Agreed

LEMMA OwnedInvariance ==
  ASSUME MaxAtOnce = 1
  PROVE  CallsSpec => []Owned
<1>1. Init /\ CallsInit => Owned
  <2> SUFFICES ASSUME Init, CallsInit PROVE Owned
    OBVIOUS
  <2>1. /\ ~paused /\ \A id \in Id : ~isPresent(id)
        /\ \A t \in Call : step[t] = "idle" /\ work[t] = Nothing
        /\ signed = {} /\ rows = {} /\ \A tx : ~InMempool(tx)
        /\ \A account \in Queue : DOMAIN mempool[account] = {}
    BY DeletedType DEF Init, CallsInit, isPresent, isAbsent, InMempool, Queue
  <2>2. Ours /\ OpensOnce
    BY <2>1 DEF Ours, OpensOnce
  <2>3. Private
    BY <2>1 DEF Private, Over, Call
  <2>4. Agreed
    BY <2>1, CallsAssumption DEF Agreed, Mentions, Nothing
  <2> QED BY <2>2, <2>3, <2>4 DEF Owned
<1>2. IInv /\ CallTypes /\ Order /\ Owned /\ [CallsNext]_all => Owned'
  BY StepOurs, StepPrivate, StepOpensOnce, StepAgreed DEF Owned
<1> QED BY <1>1, <1>2, CallTypesInvariance, OrderInvariance, PTL DEF CallsSpec

\* A call that ends has stopped.
LEMMA EndIsStop ==
  ASSUME IInv, CallTypes, [CallsNext]_all, NEW t \in Call,
         step[t] \notin Over, step'[t] \in Over
  PROVE  Stops(t)
<1>1. ASSUME NEW u \in Call \ {t}, Starts(u) \/ Walks(u) \/ Posts(u) \/ Stops(u)
      PROVE  step'[t] = step[t]
  BY <1>1 DEF Starts, Walks, Posts, Sends, Stops, Finish, Goto, CallTypes
<1>2. ~Starts(t)
  BY DEF Starts, Over
<1>3. ~Walks(t)
  BY DEF Walks, CallTypes, PlacesOf, Over
<1>4. ~Posts(t)
  BY DEF Posts, Sends, Goto, CallTypes, WaitFor, Function, Over
<1>5. ASSUME NEW account \in Queue, Execute(account) PROVE step' = step
  BY <1>5 DEF Execute
<1>6. Signing \/ UNCHANGED calls \/ UNCHANGED all => step' = step
  BY DEF Signing, signPayment, calls, all
<1> QED BY <1>1, <1>2, <1>3, <1>4, <1>5, <1>6, Shapes

\* The token of a channel is the one a call has in mind.
LEMMA TokenOfWork ==
  ASSUME IInv, CallTypes, Agreed, NEW t \in Call, step[t] \notin Over, isPresent(work[t].id)
  PROVE  channels[work[t].id].tokenContract = work[t].token
<1>1. work[t].id \in Id /\ work[t].token \in Token
  BY DEF CallTypes, Work
<1>2. channels[work[t].id].tokenContract \in Token
  BY <1>1, PresentChannel
<1>3. /\ Mentions(work[t].id, work[t].token)
      /\ Mentions(work[t].id, channels[work[t].id].tokenContract)
  BY DEF Mentions
<1> QED BY <1>1, <1>2, <1>3 DEF Agreed

LEMMA RefusedStep ==
  ASSUME IInv, CallTypes, Exact, Owned, [CallsNext]_all, NEW t \in Active,
         step[t] \in {"open", "deposit"}, step'[t] = "failed"
  PROVE  \/ held[work[t].token][Payer] < work[t].value
         \/ work[t].value = 0
         \/ t \in Topping /\ ~isOpen(work[t].id)
<1>1. t \in Call /\ step[t] \notin Over /\ step'[t] \in Over
  BY DEF Active, Over
<1>2. Stops(t)
  BY <1>1, EndIsStop
<1>3. work[t].id \in Id /\ work[t].token \in Token /\ work[t].value \in Nat
  BY <1>1 DEF CallTypes, Work
<1>4. allowance[work[t].token][Payer] = work[t].value
  BY <1>1 DEF Exact, Approved
<1>5. held[work[t].token][Payer] \in Nat /\ Payer \in Account
  BY <1>3, CallsAssumption DEF IInv, TypeOK, TokenTypeOK, Holder
<1>6. ~CanPull(work[t].token, Payer, work[t].value) => held[work[t].token][Payer] < work[t].value
  BY <1>3, <1>4, <1>5 DEF CanPull
<1>7. CASE step[t] = "open"
  <2>1. ~MayOpen(work[t])
    BY <1>2, <1>7 DEF Stops
  <2>2. t \in Opening
    BY <1>1, <1>7, CallsAssumption DEF CallTypes, PlacesOf
  <2>3. isAbsent(work[t].id) /\ ~paused
    BY <1>7, <2>2 DEF Owned, Private, Ours
  <2>4. Payee # Zero /\ work[t].token # Zero /\ SettlementPeriod # 0
    BY <1>3, CallsAssumption, ZeroAssumption
  <2> QED BY <1>6, <2>1, <2>3, <2>4 DEF MayOpen, mayOpen
<1>8. CASE step[t] = "deposit"
  <2>1. ~MayDeposit(work[t])
    BY <1>2, <1>8 DEF Stops
  <2>2. t \in Topping
    BY <1>1, <1>8, CallsAssumption DEF CallTypes, PlacesOf
  <2>3. CASE isOpen(work[t].id)
    <3>1. ~paused /\ channels[work[t].id].sender = Payer
      BY <1>3, <2>3 DEF Owned, Ours, isOpen
    <3>2. channels[work[t].id].tokenContract = work[t].token
      BY <1>1, <2>3, TokenOfWork DEF Owned, isOpen
    <3> QED BY <1>6, <2>1, <2>3, <3>1, <3>2 DEF MayDeposit, mayDeposit, canDeposit
  <2> QED BY <2>2, <2>3
<1> QED BY <1>7, <1>8

(* With one call of the payer at a time, an opening or a deposit that is    *)
(* refused asks for tokens the payer has not, for nothing, or comes after   *)
(* the close: no late receipt, no allowance left over by another call and   *)
(* no disagreement about the token makes a good call fail.                  *)
THEOREM RefusalsHaveReasons ==
  ASSUME MaxAtOnce = 1
  PROVE  CallsSpec => RefusedForAReason
<1>1. IInv /\ CallTypes /\ Exact /\ Owned /\ [CallsNext]_all =>
        [\A t \in Active :
           (step[t] \in {"open", "deposit"} /\ step'[t] = "failed") =>
             \/ held[work[t].token][Payer] < work[t].value
             \/ work[t].value = 0
             \/ t \in Topping /\ ~isOpen(work[t].id)]_all
  BY RefusedStep
<1> QED BY <1>1, CallTypesInvariance, OrderInvariance, OwnedInvariance, PTL
        DEF CallsSpec, RefusedForAReason

-----------------------------------------------------------------------------
(* Outcomes: what a simulation showed holds until its transaction is mined, *)
(* and what the receipt says holds until the call sees it.                  *)

Outcome(t) ==
  LET id == work[t].id IN
  /\ step[t] = "opening" /\ Awaits(t) => MayOpen(work[t])
  /\ step[t] = "opening" /\ receipt[t] # "none" => channels[id] = Opened(work[t])
  /\ step[t] = "depositing" /\ Awaits(t) => isAbsent(id) \/ MayDeposit(work[t])
  /\ step[t] = "settling" /\ Awaits(t) => isAbsent(id) \/ canSettle(id)
  /\ step[t] = "claiming" /\ Awaits(t) => isAbsent(id) \/ canClaim(id, work[t].value, Payee)
  /\ step[t] \in Waiting \ {"approving", "opening"} /\ receipt[t] = "reverted" =>
       isAbsent(id) \/ (step[t] = "announcing" /\ isSettling(id))

Outcomes == \A t \in Call : Outcome(t)

InTime == number <= MaxBlock + 1

LEMMA StepGrows ==
  ASSUME IInv, CallTypes, [CallsNext]_all
  PROVE  number' >= number /\ signed \subseteq signed' /\ (InTime => InTime')
<1>1. UNCHANGED <<number, signed>> => number' >= number /\ signed \subseteq signed' /\ (InTime => InTime')
  BY DEF IInv, TypeOK, InTime
<1>2. ASSUME NEW t \in Call, Starts(t) \/ Walks(t) \/ Posts(t) \/ Stops(t)
      PROVE  UNCHANGED <<number, signed>>
  BY <1>2 DEF Starts, Walks, Posts, Sends, Stops, vars, contract
<1>3. ASSUME NEW account \in Queue, Execute(account) PROVE UNCHANGED <<number, signed>>
  <2> DEFINE tx == Head(mempool[account])
  <2>1. tx \in Tx /\ (Effect(tx) \/ UNCHANGED vars)
    BY <1>3, ExecutedReceipt DEF Execute
  <2> HIDE DEF tx
  <2>2. tx.args.id \in Id
    BY <2>1 DEF Tx, Work
  <2> QED BY <2>1, <2>2, EffectOnChannels DEF vars, contract
<1>4. CASE Signing
  <2>1. UNCHANGED number /\ signed \subseteq signed'
    BY <1>4 DEF Signing, signPayment, Sign
  <2> QED BY <2>1 DEF IInv, TypeOK, InTime
<1>5. CASE Mine
  <2>1. number' = number + 1 /\ UNCHANGED signed /\ number < MaxBlock /\ number \in Nat
    BY <1>5 DEF Mine, IInv, TypeOK
  <2> QED BY <2>1, RangeAssumption DEF InTime
<1>6. UNCHANGED all => UNCHANGED <<number, signed>>
  BY DEF all, vars, contract
<1> QED BY <1>1, <1>2, <1>3, <1>4, <1>5, <1>6, Shapes

\* The channel a call is about may be closed, but is never opened again and
\* keeps its terms as long as it lives.
LEMMA ChannelGoesOn ==
  ASSUME IInv, CallTypes, Private, [CallsNext]_all, NEW t \in Call \ Opening,
         step[t] \notin Over, NEW id, id = work[t].id
  PROVE  isAbsent(id)' \/ (isPresent(id) /\ isPresent(id)' /\ SameTerms(id))
<1>1. id \in Id
  BY DEF CallTypes, Work
<1>2. ASSUME isAbsent(id) PROVE isAbsent(id)'
  <2>1. ASSUME NEW account \in Queue, Execute(account), NEW tx, tx = Head(mempool[account]),
               tx.function = "open", tx.args.id = id
        PROVE  FALSE
    <3>1. tx \in Tx /\ InMempool(tx)
      BY <2>1, ExecutedReceipt
    <3>2. tx.call \in Opening /\ Alone(tx.call, id)
      BY <2>1, <3>1, FunctionOfCall DEF Private
    <3> QED BY <3>2 DEF Alone
  <2> QED BY <1>1, <1>2, <2>1, AbsentKept
<1>3. ASSUME isPresent(id), isPresent(id)' PROVE SameTerms(id)
  <2>1. [Next]_vars
    BY StepIsAllowed
  <2>2. CASE UNCHANGED vars
    <3>1. UNCHANGED channels
      BY <2>2 DEF vars, contract
    <3>2. channels[id].value \in Nat
      BY <1>1 DEF IInv, TypeOK, PaymentChannel
    <3> QED BY <3>1, <3>2 DEF SameTerms
  <2>3. CASE ~ UNCHANGED vars
    BY <1>1, <2>1, <2>3, NextSameTerms
  <2> QED BY <2>2, <2>3
<1> QED BY <1>2, <1>3 DEF isPresent

\* What a claim does to the payer.
LEMMA ClaimPays ==
  ASSUME IInv, CallTypes, NEW tx \in Tx, InMempool(tx), tx.call \in Claiming, Effect(tx)
  PROVE  /\ UNCHANGED <<allowance, paused>>
         /\ \A token \in Token : held'[token][Payer] >= held[token][Payer]
         /\ \A id \in Id : isAbsent(id)' \/ channels'[id] = channels[id]
<1> DEFINE id == tx.args.id
           share == IF tx.args.value >= channels[id].value THEN channels[id].value
                    ELSE tx.args.value
<1>1. /\ UNCHANGED allowance /\ claim(Payee, id, tx.args.value)
      /\ id \in Id /\ tx.args.value \in Promise
  BY ClaimOnly, FunctionOfCall
<1>2. PaysOut(id, share)
  BY <1>1, ClaimPaysOut, CallsAssumption
<1> HIDE DEF share
<1>3. /\ channels' = [channels EXCEPT ![id] = Deleted] /\ UNCHANGED paused
      /\ channels \in [Id -> PaymentChannel]
  BY <1>2 DEF PaysOut, Delete, IInv, TypeOK
<1>4. ASSUME NEW token \in Token PROVE held'[token][Payer] >= held[token][Payer]
  <2>1. held[token][Payer] \in Nat /\ Payer \in Account
    BY CallsAssumption DEF IInv, TypeOK, TokenTypeOK, Holder
  <2>2. CASE token # channels[id].tokenContract
    <3>1. held'[token] = held[token]
      BY <1>2, <2>2 DEF PaysOut
    <3> QED BY <2>1, <3>1
  <2>3. CASE token = channels[id].tokenContract
    <3>1. /\ held'[token][Payer] =
               held[token][Payer] + ((IF Payer = channels[id].receiver THEN share ELSE 0)
                 + (IF Payer = channels[id].sender THEN channels[id].value - share ELSE 0))
          /\ share \in 0 .. channels[id].value
      BY <1>2, <2>1, <2>3 DEF PaysOut
    <3>2. channels[id].value \in Nat
      BY <1>1, <1>3 DEF PaymentChannel
    <3> QED BY <2>1, <3>1, <3>2
  <2> QED BY <2>2, <2>3
<1>5. ASSUME NEW c \in Id PROVE isAbsent(c)' \/ channels'[c] = channels[c]
  BY <1>3, DeletedType DEF isAbsent
<1> QED BY <1>1, <1>3, <1>4, <1>5

\* While an opening or a deposit waits for its receipt, others only pay.
LEMMA OthersOnlyPay ==
  ASSUME IInv, CallTypes, Order, [CallsNext]_all, NEW t \in Call, Awaits(t),
         step[t] \in {"opening", "depositing"}, receipt'[t] = "none", step'[t] = step[t]
  PROVE  /\ UNCHANGED <<allowance, paused>>
         /\ \A token \in Token : held'[token][Payer] >= held[token][Payer]
         /\ \A id \in Id : isAbsent(id)' \/ channels'[id] = channels[id]
<1>1. \A token \in Token : held[token][Payer] \in Nat
  BY CallsAssumption DEF IInv, TypeOK, TokenTypeOK, Holder
<1>2. CASE UNCHANGED <<allowance, held, paused, channels>>
  BY <1>1, <1>2
<1>3. ASSUME NEW u \in Call, Starts(u) \/ Walks(u) \/ Posts(u) \/ Stops(u)
      PROVE  UNCHANGED <<allowance, held, paused, channels>>
  BY <1>3 DEF Starts, Walks, Posts, Sends, Stops, vars, tokens, funds, contract
<1>4. Signing \/ Mine \/ UNCHANGED all => UNCHANGED <<allowance, held, paused, channels>>
  BY DEF Signing, signPayment, Sign, Mine, all, vars, tokens, funds, contract
<1>5. ASSUME NEW account \in Queue, Execute(account), ~ UNCHANGED <<allowance, held, paused, channels>>,
             NEW tx, tx = Head(mempool[account])
      PROVE  tx \in Tx /\ InMempool(tx) /\ tx.call \in Claiming /\ Effect(tx)
  <2>1. tx \in Tx /\ InMempool(tx) /\ (Effect(tx) \/ UNCHANGED vars)
    BY <1>5, ExecutedReceipt DEF Execute
  <2>2. tx.call # t
    BY <1>5, ExecutedReceipt DEF Awaits
  <2>3. tx.call \in Claiming
    BY <2>1, <2>2 DEF Order, OrderOf, OnlyOf
  <2>4. Effect(tx)
    BY <1>5, <2>1 DEF vars, tokens, funds, contract
  <2> QED BY <2>1, <2>3, <2>4
<1> QED BY <1>2, <1>3, <1>4, <1>5, ClaimPays, Shapes

LEMMA OpenedStays ==
  ASSUME IInv, CallTypes, Order, Owned, [CallsNext]_all, NEW t \in Call,
         step[t] = "opening", receipt[t] # "none", NEW id, id = work[t].id
  PROVE  channels'[id] = channels[id]
<1>1. id \in Id /\ t \in Opening
  BY CallsAssumption DEF CallTypes, Work, Over, PlacesOf
<1>2. Alone(t, id)
  BY <1>1 DEF Owned, Private, Over
<1>3. ASSUME NEW u \in Call, Starts(u) \/ Walks(u) \/ Posts(u) \/ Stops(u)
      PROVE  UNCHANGED channels
  BY <1>3 DEF Starts, Walks, Posts, Sends, Stops, vars, contract
<1>4. Signing \/ Mine \/ UNCHANGED all => UNCHANGED channels
  BY DEF Signing, signPayment, Sign, Mine, all, vars, contract
<1>5. ASSUME NEW account \in Queue, Execute(account), NEW tx, tx = Head(mempool[account])
      PROVE  channels'[id] = channels[id]
  <2>1. tx \in Tx /\ InMempool(tx) /\ (Effect(tx) \/ UNCHANGED vars)
    BY <1>5, ExecutedReceipt DEF Execute
  <2>2. tx.call # t
    BY <2>1 DEF Order, OrderOf, OnlyOf, Awaits
  <2>3. tx.args.id # id
    BY <1>2, <2>1, <2>2 DEF Alone
  <2> QED BY <1>1, <2>1, <2>3, EffectOnChannels DEF vars, contract
<1> QED BY <1>3, <1>4, <1>5, Shapes

\* A step that is not the call's own leaves its outcome true.
LEMMA OutcomeGoesOn ==
  ASSUME IInv, CallTypes, Order, Owned, [CallsNext]_all, NEW t \in Call, Outcome(t),
         step[t] \in Waiting, UNCHANGED <<step[t], work[t], receipt[t]>>
  PROVE  Outcome(t)'
<1> SUFFICES ASSUME NEW args, args = work[t], NEW id, id = args.id
             PROVE  /\ step[t] = "opening" /\ Awaits(t) => MayOpen(args)'
                    /\ step[t] = "opening" /\ receipt[t] # "none" => channels'[id] = Opened(args)
                    /\ step[t] = "depositing" /\ Awaits(t) => isAbsent(id)' \/ MayDeposit(args)'
                    /\ step[t] = "settling" /\ Awaits(t) => isAbsent(id)' \/ canSettle(id)'
                    /\ step[t] = "claiming" /\ Awaits(t) =>
                         isAbsent(id)' \/ canClaim(id, args.value, Payee)'
                    /\ step[t] \in Waiting \ {"approving", "opening"} /\ receipt[t] = "reverted" =>
                         isAbsent(id)' \/ (step[t] = "announcing" /\ isSettling(id)')
  BY DEF Outcome, Awaits, MayOpen, mayOpen, MayDeposit, mayDeposit, canDeposit, isOpen, isPresent,
         isAbsent, isSettling, canSettle, canClaim, CanPull
<1>1. step[t] \notin Over /\ args \in Work /\ args.value \in Nat /\ id \in Id /\ args.token \in Token
  BY DEF CallTypes, Work, Waiting, Over
<1>2. held \in [Token -> [Holder -> Nat]] /\ held' \in [Token -> [Holder -> Nat]] /\ Payer \in Holder
  <2>1. IInv'
    BY StepIsAllowed, NextIInv
  <2> QED BY <2>1, CallsAssumption DEF IInv, TypeOK, TokenTypeOK, Holder
<1>3. CASE step[t] = "opening" /\ Awaits(t)
  <2>1. MayOpen(args)
    BY <1>3 DEF Outcome
  <2>2. /\ UNCHANGED <<allowance, paused>>
        /\ held'[args.token][Payer] >= held[args.token][Payer]
        /\ isAbsent(id)' \/ channels'[id] = channels[id]
    BY <1>1, <1>3, OthersOnlyPay DEF Awaits
  <2>3. MayOpen(args)'
    BY <1>1, <1>2, <2>1, <2>2 DEF MayOpen, mayOpen, isAbsent, CanPull
  <2> QED BY <1>3, <2>3 DEF Awaits
<1>4. CASE step[t] = "opening" /\ receipt[t] # "none"
  <2>1. channels'[id] = channels[id] /\ channels[id] = Opened(args)
    BY <1>4, OpenedStays DEF Outcome
  <2> QED BY <1>4, <2>1 DEF Awaits
<1>5. CASE step[t] = "depositing" /\ Awaits(t)
  <2>1. /\ UNCHANGED <<allowance, paused>>
        /\ \A token \in Token : held'[token][Payer] >= held[token][Payer]
        /\ isAbsent(id)' \/ channels'[id] = channels[id]
    BY <1>1, <1>5, OthersOnlyPay DEF Awaits
  <2>2. isAbsent(id) \/ MayDeposit(args)
    BY <1>5 DEF Outcome
  <2>3. ASSUME ~isAbsent(id)', MayDeposit(args) PROVE MayDeposit(args)'
    <3>1. channels'[id] = channels[id]
      BY <2>1, <2>3
    <3>2. channels[id].tokenContract \in Token
      BY <1>1, <2>3, PresentChannel DEF MayDeposit, mayDeposit, canDeposit, isOpen
    <3>3. CanPull(channels[id].tokenContract, Payer, args.value) =>
            CanPull(channels[id].tokenContract, Payer, args.value)'
      BY <1>1, <1>2, <2>1, <3>1, <3>2 DEF CanPull
    <3> QED BY <2>1, <2>3, <3>1, <3>3
            DEF MayDeposit, mayDeposit, canDeposit, isOpen, isPresent, isAbsent, isSettling
  <2>4. isAbsent(id) => isAbsent(id)'
    BY <2>1 DEF isAbsent
  <2> QED BY <1>5, <2>2, <2>3, <2>4 DEF Awaits
<1>6. CASE step[t] \in Waiting \ {"approving", "opening"} /\ ~(step[t] = "depositing" /\ Awaits(t))
  <2>1. t \notin Opening
    BY <1>1, <1>6 DEF CallTypes, PlacesOf, Waiting
  <2>2. isAbsent(id)' \/ (isPresent(id) /\ isPresent(id)' /\ SameTerms(id))
    BY <1>1, <2>1, ChannelGoesOn DEF Owned
  <2>3. number' >= number /\ signed \subseteq signed'
    BY StepGrows
  <2>4. ASSUME isPresent(id), isPresent(id)', SameTerms(id)
        PROVE  /\ isSettling(id) => isSettling(id)'
               /\ canSettle(id) => canSettle(id)'
               /\ canClaim(id, args.value, Payee) => canClaim(id, args.value, Payee)'
    <3>1. /\ channels'[id].sender = channels[id].sender
          /\ channels'[id].receiver = channels[id].receiver
          /\ channels'[id].tokenContract = channels[id].tokenContract
          /\ isSettling(id) => channels'[id] = channels[id]
      BY <2>4 DEF SameTerms
    <3>2. number \in Nat /\ number' \in Nat /\ channels[id].settlingUntil \in Nat
      <4>1. IInv'
        BY StepIsAllowed, NextIInv
      <4> QED BY <1>1, <4>1 DEF IInv, TypeOK, PaymentChannel
    <3>3. isSettling(id) => isSettling(id)'
      BY <3>1 DEF isSettling
    <3>4. canSettle(id) => canSettle(id)'
      BY <2>3, <3>1, <3>2, <3>3 DEF canSettle, isSettling
    <3>5. canClaim(id, args.value, Payee) => canClaim(id, args.value, Payee)'
      BY <2>3, <2>4, <3>1 DEF canClaim
    <3> QED BY <3>3, <3>4, <3>5
  <2> QED BY <1>6, <2>2, <2>4 DEF Outcome, isPresent
<1> QED BY <1>3, <1>4, <1>5, <1>6 DEF Awaits

\* The call's own transaction is mined.
LEMMA OwnOutcome ==
  ASSUME IInv, CallTypes, Order, Owned, Funded, InTime, MaxBlock + SettlementPeriod < MaxUint,
         NEW account \in Queue, Execute(account), NEW tx, tx = Head(mempool[account]),
         step[tx.call] \in Waiting, Outcome(tx.call)
  PROVE  Outcome(tx.call)'
<1> DEFINE t == tx.call
           args == work[t]
           id == args.id
<1>1. tx \in Tx /\ InMempool(tx) /\ UNCHANGED <<step, work>> /\ t \in Call
      /\ receipt'[t] \in {"success", "reverted"}
  BY ExecutedReceipt DEF Tx
<1>2. Awaits(t) /\ tx.args = args /\ step[t] = WaitFor[tx.function] /\ tx.function \in Function
  BY <1>1, ItsTransaction DEF Waiting, Tx
<1>3. id \in Id /\ args.value \in Nat
  BY <1>1, <1>2 DEF Tx, Work
<1>4. ~Awaits(t)'
  BY <1>1 DEF Awaits
<1>5. \/ Effect(tx) /\ receipt'[t] = "success"
      \/ Reverts(tx) /\ UNCHANGED vars
  BY <1>1 DEF Execute, Status, CallTypes
<1> SUFFICES /\ step[t] = "opening" => channels'[id] = Opened(args)
             /\ step[t] \in Waiting \ {"approving", "opening"} /\ receipt'[t] = "reverted" =>
                  isAbsent(id)' \/ (step[t] = "announcing" /\ isSettling(id)')
  BY <1>1, <1>4 DEF Outcome, isAbsent, isSettling
<1>6. CASE step[t] = "opening"
  <2>1. tx.function = "open"
    BY <1>2, <1>6 DEF WaitFor, Function
  <2>2. ~Reverts(tx)
    BY <1>2, <1>6, <2>1 DEF Reverts, Outcome
  <2>3. channels'[id] = Opened(args)
    BY <1>1, <1>2, <1>3, <1>5, <2>1, <2>2, EffectOnChannels
  <2> QED BY <1>6, <2>3
<1>7. CASE step[t] # "opening" /\ receipt'[t] = "reverted" /\ step[t] # "approving"
  <2>1. Reverts(tx) /\ UNCHANGED <<channels, number>>
    BY <1>5, <1>7 DEF vars, contract
  <2>2. SUFFICES ASSUME isPresent(id)
                 PROVE  step[t] = "announcing" /\ isSettling(id)
    BY <1>1, <1>7, <2>1 DEF isPresent, isAbsent, isSettling
  <2>3. /\ channels[id].sender = Payer /\ channels[id].settlingPeriod = SettlementPeriod
        /\ ~paused /\ CanPush(channels[id].tokenContract, channels[id].value)
    BY <1>3, <2>2 DEF Owned, Ours, Funded
  <2>4. CASE tx.function = "deposit"
    <3>1. step[t] = "depositing"
      BY <1>2, <2>4 DEF WaitFor
    <3>2. MayDeposit(args)
      BY <1>2, <2>2, <3>1 DEF Outcome, isPresent
    <3> QED BY <1>2, <2>1, <2>4, <3>2 DEF Reverts
  <2>5. CASE tx.function = "settle"
    <3> step[t] = "settling"
      BY <1>2, <2>5 DEF WaitFor
    <3>1. canSettle(id)
      BY <1>2, <2>2 DEF Outcome, isPresent
    <3>2. ~maySettle(id)
      BY <1>2, <2>1, <2>5 DEF Reverts, MaySettle
    <3> QED BY <2>2, <2>3, <3>1, <3>2 DEF maySettle
  <2>6. CASE tx.function = "claim"
    <3> step[t] = "claiming"
      BY <1>2, <2>6 DEF WaitFor
    <3>1. canClaim(id, args.value, Payee)
      BY <1>2, <2>2 DEF Outcome, isPresent
    <3>2. ~mayClaim(Payee, id, args.value)
      BY <1>2, <2>1, <2>6 DEF Reverts, MayClaim
    <3> QED BY <2>3, <3>1, <3>2 DEF mayClaim
  <2>7. CASE tx.function = "startSettling"
    <3>1. step[t] = "announcing"
      BY <1>2, <2>7 DEF WaitFor
    <3>2. number + SettlementPeriod <= MaxUint
      <4>1. number \in Nat /\ MaxBlock \in Nat /\ SettlementPeriod \in Nat /\ MaxUint \in Nat
        <5>1. MaxUint \in Nat /\ MaxBlock \in Nat
          BY RangeAssumption
        <5>2. SettlementPeriod \in 0 .. MaxUint
          BY CallsAssumption, RangeAssumption
        <5> QED BY <5>1, <5>2 DEF IInv, TypeOK
      <4> QED BY <4>1 DEF InTime
    <3>3. ~canStartSettling(id, Payer)
      BY <1>2, <2>1, <2>3, <2>7, <3>2 DEF Reverts, MayStartSettling, mayStartSettling
    <3>4. isSettling(id)
      BY <2>2, <2>3, <3>3 DEF canStartSettling, isOpen
    <3> QED BY <3>1, <3>4
  <2> QED BY <1>2, <1>7, <2>4, <2>5, <2>6, <2>7 DEF Function, WaitFor
<1> QED BY <1>6, <1>7

LEMMA StepOutcomes ==
  ASSUME IInv, CallTypes, Order, Owned, Funded, InTime, MaxBlock + SettlementPeriod < MaxUint,
         Outcomes, [CallsNext]_all
  PROVE  Outcomes'
<1> SUFFICES ASSUME NEW t \in Call PROVE Outcome(t)'
  BY DEF Outcomes
<1>1. Outcome(t)
  BY DEF Outcomes
<1>2. ASSUME step'[t] \notin Waiting PROVE Outcome(t)'
  BY <1>2 DEF Outcome, Awaits, Waiting
<1>3. ASSUME UNCHANGED <<step[t], work[t], receipt[t]>> PROVE Outcome(t)'
  BY <1>1, <1>2, <1>3, OutcomeGoesOn
<1>4. ASSUME NEW u \in Call \ {t}, Starts(u) \/ Walks(u) \/ Posts(u) \/ Stops(u)
      PROVE  UNCHANGED <<step[t], work[t], receipt[t]>>
  BY <1>4 DEF Starts, Walks, Posts, Sends, Stops, Finish, Goto, CallTypes
<1>5. Starts(t) => step'[t] \notin Waiting
  BY DEF Starts, CallTypes, FirstOf, Waiting
<1>6. Walks(t) \/ Stops(t) => step'[t] \notin Waiting
  BY DEF Walks, Stops, Finish, Goto, CallTypes, Waiting
<1>7. ASSUME Posts(t) PROVE Outcome(t)'
  <2>1. /\ step[t] \in Function /\ step'[t] = WaitFor[step[t]] /\ receipt'[t] = "none"
        /\ UNCHANGED <<vars, work>> /\ Simulated(t)
    BY <1>7 DEF Posts, Sends, Goto, CallTypes
  <2>2. UNCHANGED <<channels, number, paused, signed, allowance, held>>
    BY <2>1 DEF vars, tokens, funds, contract
  <2>3. /\ step[t] = "settle" => canSettle(work[t].id)
        /\ step[t] = "claim" => canClaim(work[t].id, work[t].value, Payee)
    BY <2>1 DEF Simulated, MaySettle, maySettle, MayClaim, mayClaim
  <2>4. /\ step'[t] = "opening" => step[t] = "open"
        /\ step'[t] = "depositing" => step[t] = "deposit"
        /\ step'[t] = "settling" => step[t] = "settle"
        /\ step'[t] = "claiming" => step[t] = "claim"
    BY <2>1 DEF Function, WaitFor
  <2>5. step'[t] = "opening" => MayOpen(work[t])'
    BY <2>1, <2>2, <2>4 DEF Simulated, MayOpen, mayOpen, isAbsent, CanPull
  <2>6. step'[t] = "depositing" => MayDeposit(work[t])'
    BY <2>1, <2>2, <2>4 DEF Simulated, MayDeposit, mayDeposit, canDeposit, isOpen, isPresent,
                            isAbsent, isSettling, CanPull
  <2>7. step'[t] = "settling" => canSettle(work[t].id)'
    BY <2>1, <2>2, <2>3, <2>4 DEF canSettle, isSettling
  <2>8. step'[t] = "claiming" => canClaim(work[t].id, work[t].value, Payee)'
    BY <2>1, <2>2, <2>3, <2>4 DEF canClaim, isPresent, isAbsent
  <2> QED BY <2>1, <2>5, <2>6, <2>7, <2>8 DEF Outcome
<1>8. ASSUME NEW account \in Queue, Execute(account), NEW tx, tx = Head(mempool[account])
      PROVE  Outcome(t)'
  <2>1. UNCHANGED <<step, work>>
    BY <1>8, ExecutedReceipt
  <2>2. CASE tx.call = t /\ step[t] \in Waiting
    BY <1>1, <1>8, <2>2, OwnOutcome
  <2>3. CASE tx.call # t
    <3>1. receipt'[t] = receipt[t]
      BY <1>8, <2>3, ExecutedReceipt
    <3> QED BY <1>3, <2>1, <3>1
  <2> QED BY <1>2, <2>1, <2>2, <2>3
<1>9. Signing \/ UNCHANGED calls \/ UNCHANGED all => UNCHANGED <<step[t], work[t], receipt[t]>>
  BY DEF Signing, signPayment, calls, all
<1> QED BY <1>2, <1>3, <1>4, <1>5, <1>6, <1>7, <1>8, <1>9, Shapes

LEMMA ReturnStep ==
  ASSUME IInv, CallTypes, Outcomes, [CallsNext]_all, NEW t \in Call, Returns(t)
  PROVE  IF t \in Opening
         THEN /\ channels[work[t].id].sender = Payer
              /\ channels[work[t].id].receiver = Payee
              /\ channels[work[t].id].value = work[t].value
              /\ channels[work[t].id].tokenContract = work[t].token
         ELSE receipt[t] = "reverted" =>
                \/ isAbsent(work[t].id)
                \/ step[t] = "announcing" /\ isSettling(work[t].id)
<1>1. step[t] \in Waiting /\ step'[t] = "done" /\ step[t] \notin Over
  BY DEF Returns, Waiting, Over
<1>2. Stops(t)
  BY <1>1, EndIsStop DEF Over
<1>3. step[t] # "approving" /\ receipt[t] # "none"
  BY <1>1, <1>2 DEF Stops, Finish, Goto, CallTypes
<1>4. CASE t \in Opening
  <2>1. step[t] = "opening"
    BY <1>1, <1>3, <1>4 DEF CallTypes, PlacesOf, Waiting
  <2>2. channels[work[t].id] = Opened(work[t])
    BY <1>3, <2>1 DEF Outcomes, Outcome
  <2> QED BY <1>4, <2>2 DEF Opened
<1>5. CASE t \notin Opening
  <2>1. step[t] # "opening"
    BY <1>1, <1>5 DEF CallTypes, PlacesOf
  <2> QED BY <1>1, <1>3, <1>5, <2>1 DEF Outcomes, Outcome
<1> QED BY <1>4, <1>5

(* With one call of the payer at a time, nobody needs to read the status of *)
(* a receipt: a row is written only of a channel opened as asked for, and   *)
(* another call returns after a transaction that reverted only if the       *)
(* channel was closed or its announcement already mined.  The contract has  *)
(* the tokens to pay for every channel (ChannelsAreFunded), and a deadline  *)
(* does not overflow within the blocks considered.                          *)
THEOREM ReceiptsNeedNoReading ==
  ASSUME MaxAtOnce = 1, IsFiniteSet(Id), MaxBlock + SettlementPeriod < MaxUint
  PROVE  CallsSpec => ReturnsAreReal
<1>1. CallsSpec => []Funded
  BY CallsFollowContract, ChannelsAreFunded, PTL
<1>2. Init /\ CallsInit => InTime /\ Outcomes
  <2> SUFFICES ASSUME Init, CallsInit PROVE InTime /\ Outcomes
    OBVIOUS
  <2>1. InTime
    BY RangeAssumption DEF Init, InTime
  <2>2. ASSUME NEW t \in Call PROVE Outcome(t)
    <3>1. step[t] = "idle"
      BY DEF CallsInit
    <3> QED BY <3>1 DEF Outcome, Waiting
  <2> QED BY <2>1, <2>2 DEF Outcomes
<1>3. IInv /\ CallTypes /\ Order /\ Owned /\ Funded /\ InTime /\ Outcomes /\ [CallsNext]_all
        => InTime' /\ Outcomes'
  BY StepGrows, StepOutcomes
<1>4. IInv /\ CallTypes /\ Outcomes /\ [CallsNext]_all =>
        [\A t \in Call : Returns(t) =>
           IF t \in Opening
           THEN /\ channels[work[t].id].sender = Payer
                /\ channels[work[t].id].receiver = Payee
                /\ channels[work[t].id].value = work[t].value
                /\ channels[work[t].id].tokenContract = work[t].token
           ELSE receipt[t] = "reverted" =>
                  \/ isAbsent(work[t].id)
                  \/ step[t] = "announcing" /\ isSettling(work[t].id)]_all
  BY ReturnStep
<1> QED BY <1>1, <1>2, <1>3, <1>4, CallTypesInvariance, OrderInvariance, OwnedInvariance, PTL
        DEF CallsSpec, ReturnsAreReal

=============================================================================
