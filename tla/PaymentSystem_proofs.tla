------------------------- MODULE PaymentSystem_proofs -------------------------
(***************************************************************************)
(* Proofs about the payment system, for any channels, calls, prices,       *)
(* faults and number of purchases at once.                                 *)
(*                                                                         *)
(* The invariant is built in layers, each inductive given those before it: *)
(*   Types         the ranges of the variables, and what the place of a    *)
(*                 call says of its channel, its row and its queue         *)
(*   Progress      what a call's place says of its payment and its answer  *)
(*   Covered       promises, and those about to be signed, have their money*)
(*   RowsFollow    no stored state lags behind the chain's                 *)
(*   ClaimIsFresh  one handler at a time works on a channel                *)
(*   OpenersHold   who is opening a channel holds the default key          *)
(*   Books         what one purchase at a time leaves in the two databases *)
(*   Earnings      what the payments accepted on a channel redeem           *)
(***************************************************************************)
EXTENDS PaymentSystem, Sums_proofs, SequenceTheorems

RowType == [id : Id, value : Nat, spent : Nat, state : {Open, Settling, Settled}]
PaymentType == [id : Id, value : Nat, channelValue : Nat]

Place == Over \cup
  {"find", "inflate", "open", "save", "read", "check", "sign", "sent", "spend", "store",
   "lookup", "topup", "startSettle", "finishSettle", "credit", "announced", "refunded"}

HandlerPlace == Ended \cup
  {"find", "validate", "spend", "lookup", "claim", "record"}

ChainTypes ==
  /\ phase \in [Id -> {"none", "open", "settling", "expired"}]
  /\ parties \in [Id -> [sender : Account \cup {Nobody}, receiver : Account \cup {Nobody}]]
  /\ \A id \in Id : phase[id] # "none" =>
       parties[id].sender = Sender /\ parties[id].receiver = Receiver
  /\ escrow \in [Id -> Nat]
  /\ purse \in [Account -> Nat]
  /\ promised \subseteq [signer : Account, id : Id, amount : Nat]

\* The calls of the sender that work on a channel.
OnChannel(t) == pc[t] \notin Over \cup {"find", "open"}
HasRow(t) == OnChannel(t) /\ pc[t] \notin {"save", "lookup"}
HasPayment(p) == pc[p] \in {"sign", "sent", "spend", "store"} \/ wire[p] # "idle"

TaskTypes ==
  /\ pc \in [Call -> Place]
  /\ at \in [Call -> Id \cup {NoId}]
  /\ spent \in [Call -> Nat]
  /\ senderQueue \in [Key -> Seq(Call)]

DataTypes ==
  /\ payment \in [Purchase -> PaymentType \cup {NoPayment}]
  /\ wire \in [Purchase -> {"idle", "request", "token", "error", "lost"}]
  /\ senderRows \in Seq(RowType)

CallType(t) ==
  /\ OnChannel(t) => at[t] \in Id
  /\ HasRow(t) => Knows(senderRows, at[t])
  /\ pc[t] \in {"topup", "credit"} => t \in Deposit

PurchaseType(p) ==
  /\ HasPayment(p) => payment[p] \in PaymentType
  /\ wire[p] # "idle" => pc[p] \in {"sent", "spend", "store", "failed"}

SenderTypes == /\ TaskTypes
               /\ DataTypes
               /\ \A t \in Call : CallType(t)
               /\ \A p \in Purchase : PurchaseType(p)

\* A handler that has not ended is in the queue of its channel.
Queued(h) == \E i \in DOMAIN receiverQueue[ChannelOf(h)] : receiverQueue[ChannelOf(h)][i] = h

HandlerTypes ==
  /\ handler \in [Handler -> HandlerPlace]
  /\ target \in [Claim -> Id \cup {NoId}]
  /\ seen = [h \in Handler |-> seen[h]]
  /\ receiverQueue \in [Id -> Seq(Handler)]
  /\ \A h \in Handler :
       /\ handler[h] # "none" => ChannelOf(h) \in Id
       /\ handler[h] \notin Ended => Queued(h)

ReceiverTypes ==
  /\ HandlerTypes
  /\ receiverRows \in Seq(RowType)
  /\ receiverPayments \subseteq Purchase
  /\ tokens \subseteq Purchase
  /\ \A p \in Purchase : handler[p] # "none" => wire[p] # "idle"
  /\ \A p \in tokens \cup receiverPayments : handler[p] # "none"

Types == ChainTypes /\ SenderTypes /\ ReceiverTypes

\* A purchase that has sent its request has signed the payment in it.
Promise(p) == [signer |-> Sender, id |-> payment[p].id, amount |-> payment[p].value]

ProgressOf(p) ==
  /\ wire[p] # "idle" => Promise(p) \in promised
  /\ pc[p] \in {"sign", "sent", "spend", "store"} =>
       payment[p].id = at[p] /\ payment[p].value = spent[p] + Price[p]
  /\ pc[p] = "sent" => wire[p] \in {"request", "token", "error"}
  /\ pc[p] \in {"spend", "store"} => wire[p] = "token"
  /\ wire[p] = "token" \/ handler[p] \in {"spend", "accepted"} =>
       p \in tokens \cap receiverPayments

Progress == \A p \in Purchase : ProgressOf(p)

Covered ==
  /\ PromisesAreCovered
  /\ \A p \in Purchase : pc[p] = "sign" /\ phase[at[p]] # "none" =>
                            payment[p].value <= escrow[at[p]]

Promised(id) == \E promise \in promised : promise.id = id
OpenRows(rows) == \A i \in DOMAIN rows : phase[rows[i].id] = "open" => rows[i].state = Open

\* Whatever the receiver has a row of cannot be a fresh id.
Remembered ==
  \A id \in Id : Knows(receiverRows, id) =>
                   phase[id] # "none" \/ Knows(senderRows, id) \/ Promised(id)

SettlingFollows(t) ==
  /\ pc[t] = "finishSettle" => phase[at[t]] \in {"expired", "none"}
  /\ pc[t] \in {"announced", "refunded"} => phase[at[t]] # "open"

ClaimFollows(h) ==
  /\ handler[h] \in {"claim", "record"} => Promised(ChannelOf(h))
  /\ handler[h] = "record" => phase[ChannelOf(h)] # "open"

RowsFollow ==
  /\ Remembered
  /\ OpenRows(senderRows)
  /\ OpenRows(receiverRows)
  /\ \A t \in Call : SettlingFollows(t)
  /\ \A h \in Handler : ClaimFollows(h)

\* Past the lookup of its channel, a handler is the first of its queue.
Running == {"validate", "spend", "claim", "record"}

RunsFirst(h) == handler[h] \in Running => Head(receiverQueue[ChannelOf(h)]) = h

ClaimsLast(h) == handler[h] = "claim" => /\ Amounts(ChannelOf(h)) # {}
                                         /\ seen[h] = lastPayment(ChannelOf(h))

ClaimIsFresh == \A h \in Handler : RunsFirst(h) /\ ClaimsLast(h)

-----------------------------------------------------------------------------
(* The operators on rows. *)

\* An update changes the rows of one id, and none of the ids.
LEMMA SameIds ==
  ASSUME NEW rows \in Seq(RowType), NEW id,
         NEW updated, updated = [i \in DOMAIN rows |-> updated[i]],
         \A i \in DOMAIN rows : /\ updated[i] \in RowType
                                /\ updated[i].id = rows[i].id
  PROVE  /\ updated \in Seq(RowType)
         /\ DOMAIN updated = DOMAIN rows
         /\ \A other : Knows(updated, other) <=> Knows(rows, other)
<1>1. Len(rows) \in Nat /\ DOMAIN rows = 1 .. Len(rows)
  OBVIOUS
<1>2. updated \in [1 .. Len(rows) -> RowType]
  BY <1>1, Zenon
<1>3. updated \in Seq(RowType)
  BY <1>1, <1>2, SeqDef
<1> QED BY <1>3 DEF Knows

LEMMA UpdateRows ==
  ASSUME NEW rows \in Seq(RowType), NEW id, NEW amount \in Nat,
         NEW state \in {Open, Settling, Settled},
         NEW updated \in {spend(rows, id, amount), updateValue(rows, id, amount),
                          updateState(rows, id, state)}
  PROVE  /\ updated \in Seq(RowType)
         /\ DOMAIN updated = DOMAIN rows
         /\ \A i \in DOMAIN rows : /\ updated[i].id = rows[i].id
                                   /\ rows[i].id # id => updated[i] = rows[i]
         /\ \A other : Knows(updated, other) <=> Knows(rows, other)
<1>1. \A i \in DOMAIN rows : rows[i] \in RowType
  OBVIOUS
<1> DEFINE Updates(u) ==
             /\ u = [i \in DOMAIN rows |-> u[i]]
             /\ \A i \in DOMAIN rows : /\ u[i] \in RowType
                                       /\ u[i].id = rows[i].id
                                       /\ rows[i].id # id => u[i] = rows[i]
<1>2. Updates(spend(rows, id, amount))
  BY <1>1 DEF spend, UpdateRow, RowType
<1>3. Updates(updateValue(rows, id, amount))
  BY <1>1 DEF updateValue, UpdateRow, RowType
<1>4. Updates(updateState(rows, id, state))
  BY <1>1 DEF updateState, UpdateRow, RowType
<1>5. Updates(updated)
  BY <1>2, <1>3, <1>4
<1> QED BY <1>5, SameIds

LEMMA SaveRow ==
  ASSUME NEW rows \in Seq(RowType), NEW row \in RowType
  PROVE  /\ save(rows, row) \in Seq(RowType)
         /\ DOMAIN save(rows, row) = DOMAIN rows \cup {Len(rows) + 1}
         /\ \A i \in DOMAIN rows : save(rows, row)[i] = rows[i]
         /\ save(rows, row)[Len(rows) + 1] = row
         /\ \A id : Knows(save(rows, row), id) <=> Knows(rows, id) \/ row.id = id
<1>1. /\ save(rows, row) \in Seq(RowType)
      /\ DOMAIN save(rows, row) = DOMAIN rows \cup {Len(rows) + 1}
      /\ \A i \in DOMAIN rows : save(rows, row)[i] = rows[i]
      /\ save(rows, row)[Len(rows) + 1] = row
  BY DEF save
<1> QED BY <1>1 DEF Knows

LEMMA SaveOrUpdateRow ==
  ASSUME NEW rows \in Seq(RowType), NEW row \in RowType
  PROVE  /\ saveOrUpdate(rows, row) \in Seq(RowType)
         /\ \A id : Knows(saveOrUpdate(rows, row), id) <=> Knows(rows, id) \/ row.id = id
<1>1. CASE Knows(rows, row.id)
  <2> DEFINE updated == spend(rows, row.id, row.spent)
  <2>1. updated \in Seq(RowType) /\ \A id : Knows(updated, id) <=> Knows(rows, id)
    BY UpdateRows DEF RowType
  <2> QED BY <1>1, <2>1 DEF saveOrUpdate
<1>2. CASE ~Knows(rows, row.id)
  BY <1>2, SaveRow DEF saveOrUpdate
<1> QED BY <1>1, <1>2

LEMMA RowFound ==
  ASSUME NEW rows \in Seq(RowType), NEW id, Knows(rows, id)
  PROVE  \E i \in DOMAIN rows : RowOf(rows, id) = rows[i] /\ rows[i].id = id
BY DEF Knows, RowOf

LEMMA MadeRow ==
  ASSUME NEW id \in Id, NEW value \in Nat, NEW amount \in Nat,
         NEW state \in {Open, Settling, Settled}
  PROVE  Row(id, value, amount, state) \in RowType
BY DEF Row, RowType

-----------------------------------------------------------------------------
(* Types. *)

LEMMA InitTypes == Init => Types
<1> SUFFICES ASSUME Init PROVE Types
  OBVIOUS
<1> USE CallAssumption DEF Init, NetworkInit, SenderInit, ReceiverInit
<1>1. ChainTypes
  BY DEF ChainTypes, Chain!Init
<1>2. SenderTypes
  <2>1. \A t \in Call : pc[t] = "idle"
    OBVIOUS
  <2> QED BY <2>1 DEF SenderTypes, TaskTypes, DataTypes, CallType, PurchaseType, OnChannel, HasRow, HasPayment, Place, Over, Call
<1>3. ReceiverTypes
  BY DEF ReceiverTypes, HandlerTypes, HandlerPlace, Ended, ChannelOf, Handler
<1> QED BY <1>1, <1>2, <1>3 DEF Types

\* Money leaves a purse for a channel, or a channel for the two purses.
LEMMA OpenTypes ==
  ASSUME ChainTypes, NEW id \in Id, NEW amount, Chain!Open(id, Sender, Receiver, amount)
  PROVE  ChainTypes'
BY DEF ChainTypes, Chain!Open, Chain!Funds, Account

LEMMA TopUpTypes ==
  ASSUME ChainTypes, NEW id \in Id, NEW amount, Chain!TopUp(id, amount)
  PROVE  ChainTypes'
BY DEF ChainTypes, Chain!TopUp, Chain!Funds, Account

LEMMA VowTypes ==
  ASSUME ChainTypes, NEW id \in Id, NEW amount \in Nat, Chain!Vow(Sender, id, amount)
  PROVE  ChainTypes'
BY DEF ChainTypes, Chain!Vow, Account

LEMMA DivideTypes ==
  ASSUME ChainTypes, NEW id \in Id, phase[id] # "none",
         NEW share \in 0 .. escrow[id], Chain!Divide(id, share)
  PROVE  ChainTypes'
BY DEF ChainTypes, Chain!Divide, Account

LEMMA RedeemTypes ==
  ASSUME ChainTypes, NEW id \in Id, NEW amount, Chain!Redeem(id, amount)
  PROVE  ChainTypes'
<1>1. amount \in Nat
  BY DEF ChainTypes, Chain!Redeem
<1> QED BY <1>1, DivideTypes DEF ChainTypes, Chain!Redeem

LEMMA RefundTypes ==
  ASSUME ChainTypes, NEW id \in Id, Chain!Refund(id)
  PROVE  ChainTypes'
BY DivideTypes DEF ChainTypes, Chain!Refund

LEMMA AnnounceTypes ==
  ASSUME ChainTypes, NEW id \in Id, Chain!Announce(id)
  PROVE  ChainTypes'
BY DEF ChainTypes, Chain!Announce

LEMMA ExpireTypes ==
  ASSUME ChainTypes, NEW ids \in SUBSET Id, Chain!Expire(ids)
  PROVE  ChainTypes'
BY DEF ChainTypes, Chain!Expire

(* What the calls of the sender do to their places and queues. *)
LEMMA KeyIsKey ==
  ASSUME SenderTypes, NEW t \in Call, OnChannel(t) \/ pc[t] \in {"find", "open"}
  PROVE  KeyOf(t) \in Key
BY DEF SenderTypes, CallType, KeyOf, Key

LEMMA EnqueueTypes ==
  ASSUME TaskTypes, NEW t \in Call, NEW k \in Key, Enqueue(t, k)
  PROVE  senderQueue' \in [Key -> Seq(Call)]
BY DEF TaskTypes, Enqueue

LEMMA ReleaseTypes ==
  ASSUME TaskTypes, NEW t \in Call, KeyOf(t) \in Key, Holds(t, KeyOf(t)), release(t)
  PROVE  senderQueue' \in [Key -> Seq(Call)]
<1>1. Tail(senderQueue[KeyOf(t)]) \in Seq(Call)
  BY DEF TaskTypes, Holds
<1> QED BY <1>1 DEF TaskTypes, release

LEMMA FinishTypes ==
  ASSUME TaskTypes, NEW t \in Call, NEW outcome \in Over, Finish(t, outcome)
  PROVE  /\ pc' = [pc EXCEPT ![t] = outcome]
         /\ pc' \in [Call -> Place]
         /\ at' \in [Call -> Id \cup {NoId}]
         /\ spent' \in [Call -> Nat]
         /\ \A o \in Call \ {t} : at'[o] = at[o]
BY DEF TaskTypes, Finish, Goto, Place

LEMMA ThrowTypes ==
  ASSUME TaskTypes, NEW t \in Call, KeyOf(t) \in Key, Holds(t, KeyOf(t)), Throw(t)
  PROVE  /\ TaskTypes'
         /\ pc' = [pc EXCEPT ![t] = "failed"]
         /\ \A o \in Call \ {t} : at'[o] = at[o]
BY FinishTypes, ReleaseTypes DEF TaskTypes, Throw, Over

LEMMA ProceedTypes ==
  ASSUME TaskTypes, NEW p \in Call, NEW id \in Id, Holds(p, Default), Proceed(p, id)
  PROVE  /\ TaskTypes'
         /\ pc' = [pc EXCEPT ![p] = "read"]
         /\ at' = [at EXCEPT ![p] = id]
<1>1. Tail(senderQueue[Default]) \in Seq(Call)
  BY DEF TaskTypes, Holds, Key
<1>2. Append(senderQueue[id], p) \in Seq(Call)
  BY DEF TaskTypes, Key
<1>3. /\ senderQueue' = [k \in Key |-> senderQueue'[k]]
      /\ senderQueue'[Default] = Tail(senderQueue[Default])
      /\ senderQueue'[id] = Append(senderQueue[id], p)
      /\ \A k \in Key \ {id, Default} : senderQueue'[k] = senderQueue[k]
  BY CallAssumption DEF TaskTypes, Proceed, Key
<1>4. senderQueue' \in [Key -> Seq(Call)]
  BY <1>1, <1>2, <1>3 DEF TaskTypes
<1> QED BY <1>4 DEF TaskTypes, Proceed, Goto, Place


LEMMA OthersKeep ==
  ASSUME SenderTypes, NEW t \in Call,
         \A o \in Call \ {t} : pc'[o] = pc[o] /\ at'[o] = at[o],
         \A id \in Id : Knows(senderRows, id) => Knows(senderRows', id),
         CallType(t)'
  PROVE  \A o \in Call : CallType(o)'
<1> SUFFICES ASSUME NEW o \in Call \ {t} PROVE CallType(o)'
  OBVIOUS
<1> QED BY DEF SenderTypes, CallType, OnChannel, HasRow

LEMMA PaymentsKeep ==
  ASSUME SenderTypes, UNCHANGED <<payment, wire>>, NEW t \in Call,
         \A o \in Call \ {t} : pc'[o] = pc[o],
         t \in Purchase => PurchaseType(t)'
  PROVE  \A p \in Purchase : PurchaseType(p)'
<1> SUFFICES ASSUME NEW p \in Purchase, p # t PROVE PurchaseType(p)'
  OBVIOUS
<1> QED BY DEF SenderTypes, PurchaseType, HasPayment, Call

LEMMA ThrowsTypes ==
  ASSUME Types, NEW t \in Call, OnChannel(t) \/ pc[t] \in {"find", "open"}, 
         Holds(t, KeyOf(t)), Throw(t), DataTypes', UNCHANGED <<payment, wire>>,
         \A id \in Id : Knows(senderRows, id) => Knows(senderRows', id)
  PROVE  SenderTypes'
<1> USE DEF Types, SenderTypes
<1>1. /\ TaskTypes'
      /\ pc' = [pc EXCEPT ![t] = "failed"]
      /\ \A o \in Call \ {t} : at'[o] = at[o]
  BY KeyIsKey, ThrowTypes
<1>2. pc'[t] = "failed" /\ \A o \in Call \ {t} : pc'[o] = pc[o]
  BY <1>1 DEF TaskTypes
<1>3. CallType(t)'
  BY <1>2 DEF CallType, OnChannel, HasRow, Over
<1>4. t \in Purchase => PurchaseType(t)'
  BY <1>2 DEF PurchaseType, HasPayment
<1> QED BY <1>1, <1>2, <1>3, <1>4, OthersKeep, PaymentsKeep

LEMMA ProceedsTypes ==
  ASSUME Types, NEW p \in Purchase, NEW id \in Id, Runs(p, pc[p]), pc[p] \in {"inflate", "save"},
         Proceed(p, id), DataTypes', UNCHANGED <<payment, wire>>, Knows(senderRows', id),
         \A o \in Id : Knows(senderRows, o) => Knows(senderRows', o)
  PROVE  SenderTypes'
<1> USE DEF Types, SenderTypes
<1> p \in Call /\ Holds(p, Default)
  BY DEF Call, Runs, KeyOf
<1>1. /\ TaskTypes'
      /\ pc' = [pc EXCEPT ![p] = "read"]
      /\ at' = [at EXCEPT ![p] = id]
  BY ProceedTypes
<1>2. /\ pc'[p] = "read" /\ at'[p] = id
      /\ \A o \in Call \ {p} : pc'[o] = pc[o] /\ at'[o] = at[o]
  BY <1>1 DEF TaskTypes
<1>3. CallType(p)'
  BY <1>2 DEF CallType, OnChannel, HasRow
<1>4. PurchaseType(p)'
  BY <1>2 DEF PurchaseType, HasPayment
<1> QED BY <1>1, <1>2, <1>3, <1>4, OthersKeep, PaymentsKeep

LEMMA BuyTypes ==
  ASSUME Types, NEW t \in Call, buy(t) \/ openChannel(t) 
  PROVE  SenderTypes'
<1> USE DEF Types, SenderTypes, chain
<1> DEFINE label == pc'[t]
<1>1. /\ label \in {"find", "open"} /\ pc[t] = "idle"
      /\ pc' = [pc EXCEPT ![t] = label]
      /\ Enqueue(t, Default)
      /\ UNCHANGED <<payment, wire, senderRows, at, spent>>
  BY DEF buy, openChannel, Goto, TaskTypes
<1> HIDE DEF label
<1>2. TaskTypes' /\ DataTypes'
  BY <1>1, EnqueueTypes DEF TaskTypes, DataTypes, Place, Key
<1>3. CallType(t)' /\ (t \in Purchase => PurchaseType(t)')
  BY <1>1 DEF TaskTypes, CallType, OnChannel, HasRow, PurchaseType, HasPayment
<1>4. \A o \in Call \ {t} : pc'[o] = pc[o] /\ at'[o] = at[o]
  BY <1>1 DEF TaskTypes
<1> QED BY <1>1, <1>2, <1>3, <1>4, OthersKeep, PaymentsKeep

LEMMA MovesTypes ==
  ASSUME Types, NEW t \in Call, NEW label \in Place, Goto(t, label),
         UNCHANGED <<at, senderQueue, payment, wire>>,
         spent' \in [Call -> Nat], DataTypes',
         \A id \in Id : Knows(senderRows, id) => Knows(senderRows', id),
         pc'[t] = label => CallType(t)' /\ (t \in Purchase => PurchaseType(t)')
  PROVE  SenderTypes'
<1> USE DEF Types, SenderTypes
<1>1. pc'[t] = label /\ \A o \in Call \ {t} : pc'[o] = pc[o] /\ at'[o] = at[o]
  BY DEF TaskTypes, Goto
<1>2. TaskTypes'
  BY DEF TaskTypes, Goto
<1> QED BY <1>1, <1>2, OthersKeep, PaymentsKeep

LEMMA CandidateKnown ==
  ASSUME NEW rows \in Seq(RowType), NEW amount, NEW id \in firstCandidate(rows, amount)
  PROVE  id \in Id /\ Knows(rows, id)
<1>1. PICK i \in DOMAIN rows : rows[i].id = id
  BY DEF firstCandidate, Candidates
<1>2. rows[i] \in RowType
  OBVIOUS
<1> QED BY <1>1, <1>2 DEF Knows, RowType

LEMMA FindTypes ==
  ASSUME Types, NEW p \in Purchase, requireOpenChannel(p)
  PROVE  SenderTypes'
<1> USE DEF chain
<1> p \in Call /\ pc[p] = "find" /\ DataTypes' /\ UNCHANGED <<payment, wire, senderRows>>
  BY DEF Call, requireOpenChannel, Runs, Types, SenderTypes, DataTypes
<1>1. ASSUME NEW id \in firstCandidate(senderRows, Price[p]),
             Goto(p, "inflate"), at' = [at EXCEPT ![p] = id], UNCHANGED <<spent, senderQueue>>
      PROVE  SenderTypes'
  <2>1. id \in Id /\ Knows(senderRows, id)
    BY <1>1, CandidateKnown DEF Types, SenderTypes, DataTypes
  <2> USE DEF Types, SenderTypes
  <2>2. TaskTypes'
    BY <1>1, <2>1 DEF TaskTypes, Goto, Place
  <2>3. /\ pc'[p] = "inflate" /\ at'[p] = id
        /\ \A o \in Call \ {p} : pc'[o] = pc[o] /\ at'[o] = at[o]
    BY <1>1 DEF TaskTypes, Goto
  <2>4. CallType(p)' /\ PurchaseType(p)'
    BY <2>1, <2>3 DEF CallType, OnChannel, HasRow, PurchaseType, HasPayment
  <2> QED BY <2>2, <2>3, <2>4, OthersKeep, PaymentsKeep
<1>2. CASE Goto(p, "open") /\ UNCHANGED <<at, spent, senderQueue>>
  <2>1. pc'[p] = "open" => CallType(p)' /\ PurchaseType(p)'
    BY DEF Types, SenderTypes, CallType, PurchaseType, OnChannel, HasRow, HasPayment
  <2>2. "open" \in Place /\ spent' \in [Call -> Nat]
    BY <1>2 DEF Place, Types, SenderTypes, TaskTypes
  <2> QED BY <1>2, <2>1, <2>2, MovesTypes
<1> QED BY <1>1, <1>2 DEF requireOpenChannel

LEMMA InflateTypes ==
  ASSUME Types, NEW p \in Purchase, findUsable(p)
  PROVE  SenderTypes'
<1>1. /\ p \in Call /\ pc[p] = "inflate" /\ DataTypes' /\ UNCHANGED <<payment, wire, senderRows>>
      /\ at[p] \in Id /\ Knows(senderRows, at[p])
  BY DEF Call, findUsable, Runs, Types, SenderTypes, DataTypes, CallType, OnChannel, HasRow, Over
<1>2. CASE Proceed(p, at[p])
  BY <1>1, <1>2, ProceedsTypes DEF findUsable
<1>3. CASE Goto(p, "open") /\ at' = [at EXCEPT ![p] = NoId] /\ UNCHANGED <<spent, senderQueue>>
  <2> USE DEF Types, SenderTypes
  <2>1. TaskTypes'
    BY <1>3 DEF TaskTypes, Goto, Place
  <2>2. pc'[p] = "open" /\ \A o \in Call \ {p} : pc'[o] = pc[o] /\ at'[o] = at[o]
    BY <1>1, <1>3 DEF TaskTypes, Goto
  <2>3. CallType(p)' /\ PurchaseType(p)'
    BY <1>1, <2>2 DEF CallType, OnChannel, HasRow, PurchaseType, HasPayment, Over
  <2> QED BY <1>1, <2>1, <2>2, <2>3, OthersKeep, PaymentsKeep
<1> QED BY <1>2, <1>3 DEF findUsable

LEMMA RefusedOpenTypes ==
  ASSUME Types, NEW t \in Purchase \cup Opening, refusedOpen(t)
  PROVE  SenderTypes'
<1>1. /\ t \in Call /\ pc[t] = "open" /\ Holds(t, KeyOf(t)) /\ Throw(t)
      /\ DataTypes' /\ UNCHANGED <<payment, wire, senderRows>>
  BY DEF Call, refusedOpen, Runs, Types, SenderTypes, DataTypes
<1> QED BY <1>1, ThrowsTypes

LEMMA OpenedTypes ==
  ASSUME Types, NEW t \in Purchase \cup Opening, internalOpenChannel(t)
  PROVE  SenderTypes'
<1>1. /\ t \in Call /\ pc[t] = "open" /\ Holds(t, KeyOf(t))
      /\ DataTypes' /\ UNCHANGED <<payment, wire, senderRows>>
  BY DEF Call, internalOpenChannel, Runs, Types, SenderTypes, DataTypes
<1>2. PICK id \in Id : \/ /\ Goto(t, "save")
                         /\ at' = [at EXCEPT ![t] = id]
                         /\ UNCHANGED <<spent, senderQueue>>
                      \/ Throw(t)
  BY DEF internalOpenChannel
<1>3. CASE Throw(t)
  BY <1>1, <1>3, ThrowsTypes
<1>4. CASE /\ Goto(t, "save")
           /\ at' = [at EXCEPT ![t] = id]
           /\ UNCHANGED <<spent, senderQueue>>
  <2> USE DEF Types, SenderTypes
  <2>1. TaskTypes'
    BY <1>4 DEF TaskTypes, Goto, Place
  <2>2. /\ pc'[t] = "save" /\ at'[t] = id
        /\ \A o \in Call \ {t} : pc'[o] = pc[o] /\ at'[o] = at[o]
    BY <1>1, <1>4 DEF TaskTypes, Goto
  <2>3. CallType(t)' /\ (t \in Purchase => PurchaseType(t)')
    BY <1>1, <2>2 DEF CallType, OnChannel, HasRow, PurchaseType, HasPayment, Over
  <2> QED BY <1>1, <2>1, <2>2, <2>3, OthersKeep, PaymentsKeep
<1> QED BY <1>2, <1>3, <1>4

LEMMA DepositAmountIsAmount ==
  ASSUME NEW t \in Purchase \cup Opening
  PROVE  DepositAmount(t) \in Nat
BY CallAssumption DEF DepositAmount, minDepositAmount

LEMMA ReleaseFinishTypes ==
  ASSUME Types, NEW t \in Call, OnChannel(t),
         NEW outcome \in Over, Finish(t, outcome), Holds(t, KeyOf(t)), release(t),
         DataTypes', UNCHANGED <<payment, wire>>, t \notin Purchase \/ wire[t] = "idle",
         \A id \in Id : Knows(senderRows, id) => Knows(senderRows', id)
  PROVE  SenderTypes'
<1> USE DEF Types, SenderTypes
<1>1. /\ TaskTypes'
      /\ pc' = [pc EXCEPT ![t] = outcome]
      /\ \A o \in Call \ {t} : at'[o] = at[o]
  BY KeyIsKey, FinishTypes, ReleaseTypes DEF TaskTypes
<1>2. pc'[t] = outcome /\ \A o \in Call \ {t} : pc'[o] = pc[o]
  BY <1>1 DEF TaskTypes
<1>3. CallType(t)'
  BY <1>2 DEF CallType, OnChannel, HasRow, Over
<1>4. t \in Purchase => PurchaseType(t)'
  BY <1>2 DEF PurchaseType, HasPayment, Over
<1> QED BY <1>1, <1>2, <1>3, <1>4, OthersKeep, PaymentsKeep

LEMMA SavedTypes ==
  ASSUME Types, NEW t \in Purchase \cup Opening, saveOpened(t)
  PROVE  SenderTypes'
<1> DEFINE row == Row(at[t], DepositAmount(t), 0, Open)
<1>1. /\ t \in Call /\ pc[t] = "save" /\ Holds(t, KeyOf(t)) /\ OnChannel(t)
      /\ at[t] \in Id /\ row \in RowType /\ row.id = at[t]
      /\ UNCHANGED <<payment, wire>>
  BY MadeRow, DepositAmountIsAmount
     DEF Call, saveOpened, Runs, Types, SenderTypes, CallType, OnChannel, Over, Row
<1>2. CASE senderRows' = save(senderRows, row) /\ Opened(t)
  <2>1. /\ DataTypes'
        /\ Knows(senderRows', at[t])
        /\ \A id : Knows(senderRows, id) => Knows(senderRows', id)
    <3>1. senderRows \in Seq(RowType)
      BY DEF Types, SenderTypes, DataTypes
    <3> HIDE DEF row
    <3>2. /\ save(senderRows, row) \in Seq(RowType)
          /\ \A id : Knows(save(senderRows, row), id) <=>
                     Knows(senderRows, id) \/ row.id = id
      BY <1>1, <3>1, SaveRow
    <3> QED BY <1>1, <1>2, <3>2 DEF Types, SenderTypes, DataTypes
  <2>2. CASE t \in Purchase
    BY <1>1, <1>2, <2>1, <2>2, ProceedsTypes DEF Opened, saveOpened
  <2>3. CASE t \notin Purchase
    BY <1>1, <1>2, <2>1, <2>3, ReleaseFinishTypes DEF Opened, Over
  <2> QED BY <2>2, <2>3
<1>3. CASE Throw(t) /\ UNCHANGED senderRows
  BY <1>1, <1>3, ThrowsTypes DEF Types, SenderTypes, DataTypes
<1> QED BY <1>2, <1>3 DEF saveOpened

LEMMA ReadTypes ==
  ASSUME Types, NEW p \in Purchase, readSpent(p)
  PROVE  SenderTypes'
<1>1. /\ p \in Call /\ pc[p] = "read" /\ Goto(p, "check") /\ "check" \in Place
      /\ UNCHANGED <<at, senderQueue, payment, wire, senderRows>> /\ DataTypes'
  BY DEF Call, readSpent, Runs, Place, Types, SenderTypes, DataTypes
<1>2. RowOf(senderRows, at[p]).spent \in Nat
  <2>1. senderRows \in Seq(RowType) /\ Knows(senderRows, at[p])
    BY <1>1 DEF Types, SenderTypes, DataTypes, CallType, HasRow, OnChannel, Over
  <2>2. PICK i \in DOMAIN senderRows : RowOf(senderRows, at[p]) = senderRows[i]
    BY <2>1, RowFound
  <2>3. senderRows[i] \in RowType
    BY <2>1
  <2> QED BY <2>2, <2>3 DEF RowType
<1>3. spent' \in [Call -> Nat]
  BY <1>1, <1>2 DEF readSpent, Types, SenderTypes, TaskTypes
<1>4. pc'[p] = "check" => CallType(p)' /\ PurchaseType(p)'
  BY <1>1 DEF Types, SenderTypes, CallType, PurchaseType, OnChannel, HasRow, HasPayment, Over
<1> QED BY <1>1, <1>3, <1>4, MovesTypes

LEMMA CheckTypes ==
  ASSUME Types, NEW p \in Purchase, nextPayment(p)
  PROVE  SenderTypes'
<1>1. /\ p \in Call /\ pc[p] = "check" /\ Holds(p, KeyOf(p)) /\ OnChannel(p)
      /\ at[p] \in Id /\ wire[p] = "idle" /\ UNCHANGED <<wire, senderRows>>
  BY DEF Call, nextPayment, Runs, Types, SenderTypes, CallType, PurchaseType, OnChannel,
         Over
<1>2. CASE Throw(p) /\ UNCHANGED payment
  BY <1>1, <1>2, ThrowsTypes DEF Types, SenderTypes, DataTypes
<1>3. CASE /\ payment' = [payment EXCEPT ![p] = buildPaymentForChannel(p, escrow[at[p]])]
           /\ Goto(p, "sign")
           /\ UNCHANGED <<at, spent, senderQueue>>
  <2> DEFINE built == buildPaymentForChannel(p, escrow[at[p]])
  <2>1. Price[p] \in Nat /\ spent[p] \in Nat /\ escrow[at[p]] \in Nat
    BY <1>1, CallAssumption DEF Types, ChainTypes, SenderTypes, TaskTypes
  <2>2. built \in PaymentType
    BY <1>1, <2>1 DEF buildPaymentForChannel, toSpend, PaymentType
  <2> payment' = [payment EXCEPT ![p] = built]
    BY <1>3
  <2> HIDE DEF built
  <2> USE DEF Types, SenderTypes
  <2>3. TaskTypes' /\ DataTypes'
    BY <1>1, <1>3, <2>2 DEF TaskTypes, DataTypes, Goto, Place
  <2>4. /\ pc'[p] = "sign" /\ \A o \in Call \ {p} : pc'[o] = pc[o] /\ at'[o] = at[o]
        /\ payment'[p] = built /\ \A q \in Purchase \ {p} : payment'[q] = payment[q]
    BY <1>1, <1>3 DEF TaskTypes, DataTypes, Goto
  <2>5. CallType(p)'
    BY <1>1, <1>3, <2>4 DEF CallType, OnChannel, HasRow, Over
  <2>6. \A q \in Purchase : PurchaseType(q)'
    BY <1>1, <2>2, <2>4 DEF PurchaseType, HasPayment, Call
  <2> QED BY <1>1, <2>3, <2>4, <2>5, <2>6, OthersKeep
<1> QED BY <1>2, <1>3 DEF nextPayment

\* A step after which the exchange of one purchase has begun or is lost.
LEMMA ExchangeTypes ==
  ASSUME Types, NEW p \in Purchase, pc[p] \in {"sign", "sent"},
         TaskTypes', CallType(p)', \A o \in Call \ {p} : pc'[o] = pc[o] /\ at'[o] = at[o],
         pc'[p] \in {"sent", "failed"}, NEW answer \in {"request", "lost"},
         wire' = [wire EXCEPT ![p] = answer],
         UNCHANGED <<payment, senderRows>>
  PROVE  SenderTypes'
<1> USE DEF Types, SenderTypes
<1>1. wire'[p] = answer /\ \A q \in Purchase \ {p} : wire'[q] = wire[q]
  BY DEF DataTypes
<1>2. DataTypes'
  BY DEF DataTypes
<1>3. \A q \in Purchase : PurchaseType(q)'
  BY <1>1 DEF PurchaseType, HasPayment, Call
<1> QED BY <1>2, <1>3, OthersKeep DEF Call

LEMMA PayTypes ==
  ASSUME Types, NEW p \in Purchase, doPayment(p)
  PROVE  SenderTypes'
<1>1. p \in Call /\ pc[p] = "sign" /\ Holds(p, KeyOf(p)) /\ OnChannel(p)
  BY DEF Call, doPayment, Runs, OnChannel, Over
<1>2. TaskTypes'
  BY <1>1, KeyIsKey, ReleaseTypes DEF Types, SenderTypes, TaskTypes, doPayment, Goto, Place
<1>3. pc'[p] = "sent" /\ at' = at /\ \A o \in Call \ {p} : pc'[o] = pc[o]
  BY <1>1 DEF Types, SenderTypes, TaskTypes, doPayment, Goto
<1>4. CallType(p)'
  BY <1>1, <1>3 DEF doPayment, Types, SenderTypes, CallType, OnChannel, HasRow, Over
<1> QED BY <1>1, <1>2, <1>3, <1>4, ExchangeTypes DEF doPayment

LEMMA LoseTypes ==
  ASSUME Types, NEW p \in Purchase, loseConnection(p)
  PROVE  SenderTypes'
<1>1. p \in Call /\ pc[p] = "sent" /\ Finish(p, "failed") /\ UNCHANGED senderQueue
  BY DEF Call, loseConnection
<1>2. TaskTypes'
  BY <1>1, FinishTypes DEF Types, SenderTypes, TaskTypes, Over
<1>3. pc'[p] = "failed" /\ \A o \in Call \ {p} : pc'[o] = pc[o] /\ at'[o] = at[o]
  BY <1>1, FinishTypes DEF Types, SenderTypes, TaskTypes, Over
<1>4. CallType(p)'
  BY <1>3 DEF CallType, OnChannel, HasRow, Over
<1> QED BY <1>1, <1>2, <1>3, <1>4, ExchangeTypes DEF loseConnection

LEMMA AnswerTypes ==
  ASSUME Types, NEW p \in Purchase, receiveAnswer(p) \/ storePayment(p)
  PROVE  SenderTypes'
<1>1. /\ p \in Call /\ pc[p] \in {"sent", "store"}
      /\ UNCHANGED <<payment, wire, senderRows, senderQueue>> /\ DataTypes'
  BY DEF Call, receiveAnswer, storePayment, Types, SenderTypes, DataTypes
<1>2. CASE Goto(p, "spend") /\ pc[p] = "sent" /\ UNCHANGED <<at, spent>>
  <2>1. "spend" \in Place /\ spent' \in [Call -> Nat]
    BY <1>2 DEF Place, Types, SenderTypes, TaskTypes
  <2>2. pc'[p] = "spend" => CallType(p)' /\ PurchaseType(p)'
    BY <1>1, <1>2 DEF Types, SenderTypes, CallType, PurchaseType, OnChannel, HasRow,
                      HasPayment, Over
  <2> QED BY <1>1, <1>2, <2>1, <2>2, MovesTypes
<1>3. CASE Finish(p, "failed")
  <2> USE DEF Types, SenderTypes
  <2>1. "failed" \in Over
    BY DEF Over
  <2>2. TaskTypes'
    BY <1>1, <1>3, <2>1, FinishTypes DEF TaskTypes
  <2>3. pc'[p] = "failed" /\ \A o \in Call \ {p} : pc'[o] = pc[o] /\ at'[o] = at[o]
    BY <1>1, <1>3, <2>1, FinishTypes DEF TaskTypes
  <2>4. CallType(p)' /\ PurchaseType(p)'
    BY <1>1, <2>3 DEF CallType, PurchaseType, OnChannel, HasRow, HasPayment, Over
  <2> QED BY <1>1, <2>2, <2>3, <2>4, OthersKeep, PaymentsKeep
<1> QED BY <1>2, <1>3 DEF receiveAnswer, storePayment

LEMMA SpendTypes ==
  ASSUME Types, NEW p \in Purchase, spendChannel(p)
  PROVE  SenderTypes'
<1> DEFINE row == fromPayment(payment[p])
<1>1. /\ p \in Call /\ pc[p] = "spend" /\ Goto(p, "store") /\ "store" \in Place
      /\ senderRows \in Seq(RowType) /\ row \in RowType /\ spent' \in [Call -> Nat]
      /\ senderRows' = saveOrUpdate(senderRows, row)
      /\ UNCHANGED <<at, senderQueue, payment, wire>>
  <2>1. payment[p] \in PaymentType
    BY DEF spendChannel, Types, SenderTypes, PurchaseType, HasPayment
  <2>2. row \in RowType
    BY <2>1, MadeRow DEF fromPayment, PaymentType
  <2> QED BY <2>2 DEF Call, spendChannel, Place, Types, SenderTypes, TaskTypes, DataTypes
<1>2. /\ senderRows' \in Seq(RowType)
      /\ \A id : Knows(senderRows, id) => Knows(senderRows', id)
  <2> HIDE DEF row
  <2>1. /\ saveOrUpdate(senderRows, row) \in Seq(RowType)
        /\ \A id : Knows(saveOrUpdate(senderRows, row), id) <=>
                   Knows(senderRows, id) \/ row.id = id
    BY <1>1, SaveOrUpdateRow
  <2> QED BY <1>1, <2>1
<1>3. DataTypes'
  BY <1>1, <1>2 DEF Types, SenderTypes, DataTypes
<1>4. pc'[p] = "store" => CallType(p)' /\ PurchaseType(p)'
  BY <1>1, <1>2 DEF Types, SenderTypes, CallType, PurchaseType, OnChannel, HasRow,
                    HasPayment, Over
<1> QED BY <1>1, <1>2, <1>3, <1>4, MovesTypes

LEMMA BeginTypes ==
  ASSUME Types, NEW t \in Call, begin(t)
  PROVE  SenderTypes'
<1> USE DEF Types, SenderTypes
<1>1. PICK id \in Id : at' = [at EXCEPT ![t] = id] /\ Enqueue(t, id)
  BY DEF begin
<1>2. /\ pc[t] = "idle" /\ pc' = [pc EXCEPT ![t] = "lookup"]
      /\ UNCHANGED <<payment, wire, senderRows, spent>>
  BY DEF begin, Goto
<1>3. TaskTypes' /\ DataTypes'
  BY <1>1, <1>2, EnqueueTypes DEF TaskTypes, DataTypes, Place, Key
<1>4. /\ pc'[t] = "lookup" /\ at'[t] = id
      /\ \A o \in Call \ {t} : pc'[o] = pc[o] /\ at'[o] = at[o]
  BY <1>1, <1>2 DEF TaskTypes
<1>5. CallType(t)' /\ (t \in Purchase => PurchaseType(t)')
  BY <1>2, <1>4 DEF CallType, PurchaseType, OnChannel, HasRow, HasPayment
<1> QED BY <1>2, <1>3, <1>4, <1>5, OthersKeep, PaymentsKeep

LEMMA RecoveredRows ==
  ASSUME NEW rows \in Seq(RowType), NEW id \in Id, escrow[id] \in Nat
  PROVE  /\ Recovered(rows, id) \in Seq(RowType)
         /\ \A other : Knows(Recovered(rows, id), other) <=> Knows(rows, other) \/ other = id
<1> DEFINE row == Row(id, escrow[id], 0, channelState(id))
<1>1. row \in RowType /\ row.id = id
  BY MadeRow DEF channelState, Row
<1>2. CASE Knows(rows, id)
  BY <1>2 DEF Recovered
<1>3. CASE ~Knows(rows, id)
  <2>1. Recovered(rows, id) = save(rows, row)
    BY <1>3 DEF Recovered
  <2> HIDE DEF row
  <2>2. /\ save(rows, row) \in Seq(RowType)
        /\ \A other : Knows(save(rows, row), other) <=> Knows(rows, other) \/ row.id = other
    BY <1>1, SaveRow
  <2> QED BY <1>1, <2>1, <2>2
<1> QED BY <1>2, <1>3

LEMMA LookUpTypes ==
  ASSUME Types, NEW t \in Deposit \cup Closing, lookUp(t)
  PROVE  SenderTypes'
<1>1. /\ t \in Call /\ pc[t] = "lookup" /\ Holds(t, KeyOf(t)) /\ OnChannel(t) /\ at[t] \in Id
      /\ escrow[at[t]] \in Nat /\ senderRows \in Seq(RowType)
      /\ UNCHANGED <<payment, wire>>
  BY DEF Call, lookUp, Runs, OnChannel, Over, Types, ChainTypes, SenderTypes, CallType, DataTypes
<1>2. senderRows' = senderRows \/ senderRows' = Recovered(senderRows, at[t])
  BY DEF lookUp
<1>3. DataTypes' /\ \A id : Knows(senderRows, id) => Knows(senderRows', id)
  BY <1>1, <1>2, RecoveredRows DEF Types, SenderTypes, DataTypes
<1>4. CASE Throw(t)
  BY <1>1, <1>3, <1>4, ThrowsTypes
<1>5. CASE /\ senderRows' = Recovered(senderRows, at[t])
           /\ Goto(t, Label(t))
           /\ UNCHANGED <<at, spent, senderQueue>>
  <2>1. Label(t) \in {"topup", "startSettle", "finishSettle"} /\ (Label(t) = "topup" => t \in Deposit)
    BY DEF Label
  <2>2. Label(t) \in Place /\ spent' \in [Call -> Nat] /\ Knows(senderRows', at[t])
    BY <1>1, <1>5, <2>1, RecoveredRows DEF Place, Types, SenderTypes, TaskTypes
  <2>3. pc'[t] = Label(t) => CallType(t)' /\ (t \in Purchase => PurchaseType(t)')
    BY <1>1, <1>5, <2>1, <2>2
       DEF Types, SenderTypes, CallType, PurchaseType, OnChannel, HasRow, HasPayment, Over
  <2> QED BY <1>1, <1>3, <1>5, <2>2, <2>3, MovesTypes
<1> QED BY <1>4, <1>5 DEF lookUp

LEMMA MinedTypes ==
  ASSUME Types, NEW t \in Deposit \cup Closing, mined(t)
  PROVE  SenderTypes'
<1>1. /\ t \in Call /\ pc[t] \in {"topup", "startSettle", "finishSettle"}
      /\ Holds(t, KeyOf(t)) /\ OnChannel(t)
      /\ UNCHANGED <<payment, wire, senderRows>> /\ DataTypes'
  BY DEF Call, mined, OnChannel, Over, Types, SenderTypes, DataTypes
<1>2. CASE Throw(t)
  BY <1>1, <1>2, ThrowsTypes
<1>3. CASE Goto(t, After(pc[t])) /\ UNCHANGED <<at, spent, senderQueue>>
  <2> DEFINE label == After(pc[t])
  <2>1. label \in {"credit", "announced", "refunded"} /\ (label = "credit" => pc[t] = "topup")
    BY <1>1 DEF After
  <2> HIDE DEF label
  <2>2. label \in Place /\ spent' \in [Call -> Nat]
    BY <1>3, <2>1 DEF Place, Types, SenderTypes, TaskTypes
  <2>3. pc'[t] = label => CallType(t)' /\ (t \in Purchase => PurchaseType(t)')
    BY <1>1, <1>3, <2>1
       DEF Types, SenderTypes, CallType, PurchaseType, OnChannel, HasRow, HasPayment, Over
  <2> QED BY <1>1, <1>3, <2>2, <2>3, MovesTypes DEF label
<1> QED BY <1>2, <1>3 DEF mined

LEMMA RecordTypes ==
  ASSUME Types, NEW t \in Deposit \cup Closing, record(t)
  PROVE  SenderTypes'
<1>1. /\ t \in Call /\ pc[t] \in {"credit", "announced", "refunded"}
      /\ Holds(t, KeyOf(t)) /\ OnChannel(t) /\ at[t] \in Id
      /\ Finish(t, "done") /\ release(t)
      /\ UNCHANGED <<payment, wire>>
  BY DEF Call, record, OnChannel, Over, Types, SenderTypes, CallType
<1>2. PICK amount \in Nat, state \in {Settling, Settled} :
        senderRows' \in {updateValue(senderRows, at[t], amount),
                         updateState(senderRows, at[t], state)}
  <2>1. pc[t] = "credit" => escrow[at[t]] + Extra[t] \in Nat
    BY <1>1, CallAssumption DEF Types, ChainTypes, SenderTypes, CallType
  <2> QED BY <1>1, <2>1 DEF record, Update
<1>3. senderRows \in Seq(RowType)
  BY DEF Types, SenderTypes, DataTypes
<1>4. senderRows' \in Seq(RowType) /\ \A id : Knows(senderRows', id) <=> Knows(senderRows, id)
  BY <1>2, <1>3, UpdateRows
<1>5. DataTypes'
  BY <1>1, <1>4 DEF Types, SenderTypes, DataTypes
<1>6. t \notin Purchase \/ wire[t] = "idle"
  BY <1>1 DEF Types, SenderTypes, PurchaseType
<1> QED BY <1>1, <1>4, <1>5, <1>6, ReleaseFinishTypes DEF Over

LEMMA CrashTypes ==
  ASSUME Types, senderCrash
  PROVE  SenderTypes'
<1> USE DEF Types, SenderTypes, senderCrash
<1>1. TaskTypes'
  BY DEF TaskTypes, Place, Over
<1>2. DataTypes'
  BY DEF DataTypes
<1>3. \A t \in Call : pc'[t] = IF pc[t] \in Over THEN pc[t] ELSE "failed"
  BY DEF TaskTypes
<1>4. \A t \in Call : CallType(t)'
  BY <1>3 DEF CallType, OnChannel, HasRow, Over
<1>5. \A p \in Purchase : PurchaseType(p)'
  BY <1>3 DEF PurchaseType, HasPayment, DataTypes, Call, Over
<1> QED BY <1>1, <1>2, <1>4, <1>5

\* Only a transaction of the sender changes the chain, and each has a type.
LEMMA SenderChainTypes ==
  ASSUME Types, SenderNext
  PROVE  ChainTypes'
<1> USE DEF Types
<1>1. UNCHANGED chain => ChainTypes'
  BY DEF chain, ChainTypes
<1>2. ASSUME NEW t \in Purchase \cup Opening, internalOpenChannel(t)
      PROVE  ChainTypes'
  BY <1>2, OpenTypes DEF internalOpenChannel, DidOpen
<1>3. ASSUME NEW p \in Purchase, doPayment(p)
      PROVE  ChainTypes'
  <2>1. pc[p] = "sign" /\ p \in Call
    BY <1>3 DEF doPayment, Runs, Call
  <2>2. at[p] \in Id /\ payment[p] \in PaymentType
    BY <2>1 DEF SenderTypes, CallType, PurchaseType, OnChannel, HasPayment, Over
  <2> QED BY <1>3, <2>2, VowTypes DEF doPayment, sign, PaymentType
<1>4. ASSUME NEW t \in Deposit \cup Closing, mined(t)
      PROVE  ChainTypes'
  <2>1. at[t] \in Id
    BY <1>4 DEF mined, SenderTypes, CallType, OnChannel, Over, Call
  <2> QED BY <1>1, <1>4, <2>1, TopUpTypes, AnnounceTypes, RefundTypes DEF mined, Transact
<1> QED BY <1>1, <1>2, <1>3, <1>4
        DEF SenderNext, SenderCall, buy, loseConnection, openChannel, begin, senderCrash,
            refusedOpen, saveOpened, requireOpenChannel, findUsable, readSpent, nextPayment,
            receiveAnswer, spendChannel, storePayment, lookUp, record

LEMMA SenderStepTypes ==
  ASSUME Types, SenderNext
  PROVE  SenderTypes'
<1>1. ASSUME NEW p \in Purchase, buy(p) \/ loseConnection(p)
      PROVE  SenderTypes'
  BY <1>1, BuyTypes, LoseTypes DEF Call
<1>2. ASSUME NEW t \in Opening, openChannel(t)
      PROVE  SenderTypes'
  BY <1>2, BuyTypes DEF Call
<1>3. ASSUME NEW t \in Deposit \cup Closing, begin(t)
      PROVE  SenderTypes'
  BY <1>3, BeginTypes DEF Call
<1>4. ASSUME NEW t \in Call, SenderCall(t)
      PROVE  SenderTypes'
  BY <1>4, OpenedTypes, RefusedOpenTypes, SavedTypes, FindTypes, InflateTypes, ReadTypes, CheckTypes,
     PayTypes, AnswerTypes, SpendTypes, LookUpTypes, MinedTypes, RecordTypes DEF SenderCall
<1> QED BY <1>1, <1>2, <1>3, <1>4, CrashTypes DEF SenderNext

\* The payment of an exchange that has begun is fixed.
LEMMA ExchangesKept ==
  ASSUME Types, SenderNext, NEW p \in Purchase, wire[p] # "idle"
  PROVE  payment'[p] = payment[p] /\ wire'[p] # "idle"
<1> USE DEF Types, SenderTypes
<1>1. pc[p] \in {"sent", "spend", "store", "failed"}
  BY DEF PurchaseType
<1>2. ASSUME NEW q \in Purchase, nextPayment(q)
      PROVE  payment'[p] = payment[p] /\ wire'[p] = wire[p]
  BY <1>1, <1>2 DEF nextPayment, Runs, DataTypes
<1>3. ASSUME NEW q \in Purchase, doPayment(q) \/ loseConnection(q)
      PROVE  payment'[p] = payment[p] /\ wire'[p] # "idle"
  BY <1>3 DEF doPayment, loseConnection, DataTypes
<1>4. CASE senderCrash
  BY <1>4 DEF senderCrash
<1>5. UNCHANGED <<payment, wire>> => payment'[p] = payment[p] /\ wire'[p] # "idle"
  OBVIOUS
<1> QED BY <1>2, <1>3, <1>4, <1>5
        DEF SenderNext, SenderCall, buy, openChannel, begin, refusedOpen, internalOpenChannel,
            saveOpened, requireOpenChannel, findUsable, readSpent, receiveAnswer, spendChannel,
            storePayment, lookUp, mined, record

LEMMA SenderStepReceiverTypes ==
  ASSUME Types, SenderNext, UNCHANGED receiverVars
  PROVE  ReceiverTypes'
<1> USE DEF Types, ReceiverTypes, HandlerTypes, receiverVars, tables
<1>1. \A h \in Handler : handler[h] # "none" => ChannelOf(h)' = ChannelOf(h)
  BY ExchangesKept DEF ChannelOf
<1>2. \A h \in Handler : handler[h] # "none" /\ Queued(h) => Queued(h)'
  BY <1>1 DEF Queued
<1>3. HandlerTypes'
  BY <1>1, <1>2 DEF Ended
<1>4. \A p \in Purchase : handler[p] # "none" => wire'[p] # "idle"
  BY ExchangesKept
<1> QED BY <1>3, <1>4

-----------------------------------------------------------------------------
(* What the handlers of the receiver do to their places and queues. *)

LEMMA ActiveHandler ==
  ASSUME HandlerTypes, NEW h \in Handler, handler[h] \notin Ended
  PROVE  /\ ChannelOf(h) \in Id
         /\ receiverQueue[ChannelOf(h)] \in Seq(Handler)
         /\ \E i \in 1 .. Len(receiverQueue[ChannelOf(h)]) :
              receiverQueue[ChannelOf(h)][i] = h
<1> handler[h] # "none"
  BY DEF Ended
<1>1. ChannelOf(h) \in Id /\ Queued(h)
  BY DEF HandlerTypes
<1>2. receiverQueue[ChannelOf(h)] \in Seq(Handler)
  BY <1>1 DEF HandlerTypes
<1> QED BY <1>1, <1>2 DEF Queued

LEMMA ContinueTypes ==
  ASSUME HandlerTypes, NEW h \in Handler, handler[h] \notin Ended,
         NEW place \in HandlerPlace, Continue(h, place), seen' = [g \in Handler |-> seen'[g]],
         UNCHANGED <<payment, target, receiverQueue>>
  PROVE  HandlerTypes'
<1>1. \A g \in Handler : ChannelOf(g)' = ChannelOf(g) /\ (Queued(g)' <=> Queued(g))
  BY DEF ChannelOf, Queued
<1> QED BY <1>1 DEF HandlerTypes, Continue, Ended

LEMMA AwaitTypes ==
  ASSUME HandlerTypes, NEW h \in Handler, handler[h] = "none",
         NEW place \in HandlerPlace, Continue(h, place),
         NEW id \in Id, id = ChannelOf(h)', Await(h, id),
         \A g \in Handler \ {h} : ChannelOf(g)' = ChannelOf(g),
         target' \in [Claim -> Id \cup {NoId}], UNCHANGED seen
  PROVE  HandlerTypes'
<1> USE DEF HandlerTypes, Continue, Await
<1>1. /\ receiverQueue' \in [Id -> Seq(Handler)]
      /\ receiverQueue'[id] = Append(receiverQueue[id], h)
      /\ \A j \in Id \ {id} : receiverQueue'[j] = receiverQueue[j]
  OBVIOUS
<1>2. Queued(h)'
  BY <1>1 DEF Queued
<1>3. ASSUME NEW g \in Handler \ {h}, handler[g] \notin Ended
      PROVE  Queued(g)'
  <2> DEFINE j == ChannelOf(g)
  <2>1. j \in Id /\ receiverQueue[j] \in Seq(Handler) /\ ChannelOf(g)' = j
    BY <1>3, ActiveHandler
  <2>2. PICK i \in 1 .. Len(receiverQueue[j]) : receiverQueue[j][i] = g
    BY <1>3, ActiveHandler
  <2> HIDE DEF j
  <2>3. i \in DOMAIN receiverQueue'[j] /\ receiverQueue'[j][i] = g
    BY <1>1, <2>1, <2>2
  <2> QED BY <2>1, <2>3 DEF Queued
<1> QED BY <1>1, <1>2, <1>3 DEF Ended

LEMMA EndTypes ==
  ASSUME HandlerTypes, NEW h \in Handler, NEW place, Serves(h, place), place \notin Ended,
         NEW outcome \in Ended \ {"none"}, End(h, outcome), UNCHANGED <<payment, target>>
  PROVE  HandlerTypes'
<1> USE DEF HandlerTypes, Continue, End
<1> DEFINE id == ChannelOf(h)
           queue == receiverQueue[id]
<1>1. id \in Id /\ queue \in Seq(Handler) /\ queue # <<>> /\ Head(queue) = h
  BY ActiveHandler DEF Serves
<1>2. /\ Tail(queue) \in Seq(Handler)
      /\ Len(Tail(queue)) = Len(queue) - 1
      /\ \A i \in 1 .. Len(Tail(queue)) : Tail(queue)[i] = queue[i + 1]
      /\ queue[1] = h
  BY <1>1, HeadTailProperties
<1>3. /\ receiverQueue' \in [Id -> Seq(Handler)]
      /\ receiverQueue'[id] = Tail(queue)
      /\ \A j \in Id \ {id} : receiverQueue'[j] = receiverQueue[j]
  BY <1>1, <1>2
<1>4. \A g \in Handler : ChannelOf(g)' = ChannelOf(g)
  BY DEF ChannelOf
<1>5. ASSUME NEW g \in Handler \ {h}, handler[g] \notin Ended
      PROVE  Queued(g)'
  <2>1. CASE ChannelOf(g) = id
    <3>1. PICK i \in 1 .. Len(queue) : queue[i] = g
      BY <1>5, <2>1, ActiveHandler
    <3>2. i - 1 \in 1 .. Len(Tail(queue)) /\ Tail(queue)[i - 1] = g
      BY <1>1, <1>2, <3>1
    <3> QED BY <1>2, <1>3, <1>4, <2>1, <3>2 DEF Queued
  <2>2. CASE ChannelOf(g) # id
    <3> DEFINE j == ChannelOf(g)
    <3>1. j \in Id /\ receiverQueue'[j] = receiverQueue[j]
      BY <1>3, <1>5, <2>2, ActiveHandler
    <3>2. PICK i \in 1 .. Len(receiverQueue[j]) : receiverQueue[j][i] = g
      BY <1>5, ActiveHandler
    <3> QED BY <1>1, <1>4, <1>5, <3>1, <3>2, ActiveHandler DEF Queued
  <2> QED BY <2>1, <2>2
<1>6. /\ handler' \in [Handler -> HandlerPlace]
      /\ handler'[h] \in Ended
      /\ \A g \in Handler \ {h} : handler'[g] = handler[g]
  BY DEF HandlerPlace
<1>7. \A g \in Handler : handler'[g] \notin Ended => Queued(g)'
  BY <1>5, <1>6
<1>8. \A g \in Handler : handler'[g] # "none" => ChannelOf(g)' \in Id
  BY <1>1, <1>4, <1>6
<1> QED BY <1>3, <1>6, <1>7, <1>8, Zenon

LEMMA AcceptPaymentTypes ==
  ASSUME Types, NEW p \in Purchase, acceptPayment(p)
  PROVE  ReceiverTypes'
<1>1. /\ p \in Handler /\ ChannelOf(p)' = payment[p].id /\ "find" \in HandlerPlace
      /\ \A g \in Handler : ChannelOf(g)' = ChannelOf(g)
  BY DEF Handler, ChannelOf, HandlerPlace, acceptPayment
<1>2. payment[p].id \in Id /\ wire[p] # "idle"
  BY DEF acceptPayment, Types, SenderTypes, PurchaseType, HasPayment, PaymentType
<1>3. HandlerTypes'
  BY <1>1, <1>2, AwaitTypes DEF acceptPayment, Types, ReceiverTypes, HandlerTypes
<1> QED BY <1>2, <1>3
        DEF acceptPayment, tables, Continue, Types, ReceiverTypes, HandlerTypes, Handler

LEMMA CloseTypes ==
  ASSUME Types, NEW c \in Claim, closeChannel(c)
  PROVE  ReceiverTypes'
<1>1. PICK id \in Id : target' = [target EXCEPT ![c] = id] /\ Await(c, id)
  BY DEF closeChannel
<1>2. c \in Handler /\ c \notin Purchase /\ "lookup" \in HandlerPlace
  BY CallAssumption DEF Handler, HandlerPlace
<1>3. /\ target' \in [Claim -> Id \cup {NoId}] /\ ChannelOf(c)' = id
      /\ \A g \in Handler \ {c} : ChannelOf(g)' = ChannelOf(g)
  BY <1>1, <1>2 DEF ChannelOf, closeChannel, Types, ReceiverTypes, HandlerTypes, Handler
<1>4. HandlerTypes'
  BY <1>1, <1>2, <1>3, AwaitTypes DEF closeChannel, Types, ReceiverTypes
<1> QED BY <1>2, <1>4
        DEF closeChannel, tables, Continue, Types, ReceiverTypes, HandlerTypes, Handler

\* What the tables and the exchanges need for the rest of ReceiverTypes.
LEMMA TablesTypes ==
  ASSUME Types, HandlerTypes', NEW h \in Handler, handler[h] # "none",
         NEW place \in HandlerPlace \ {"none"}, Continue(h, place),
         receiverRows' \in Seq(RowType),
         tokens' \subseteq tokens \cup ({h} \cap Purchase),
         receiverPayments' \subseteq receiverPayments \cup ({h} \cap Purchase),
         UNCHANGED wire \/ \E answer \in {"token", "error"} : Answer(h, answer)
  PROVE  ReceiverTypes'
<1> USE DEF Types, ReceiverTypes
<1>1. /\ handler'[h] = place
      /\ \A g \in Handler \ {h} : handler'[g] = handler[g]
  BY DEF Continue, HandlerTypes
<1>2. \A q \in Purchase : wire[q] # "idle" => wire'[q] # "idle"
  BY DEF Answer, SenderTypes, DataTypes
<1>3. \A q \in Purchase : handler'[q] # "none" => wire'[q] # "idle"
  BY <1>1, <1>2 DEF Handler
<1>4. \A q \in tokens' \cup receiverPayments' : handler'[q] # "none"
  BY <1>1 DEF Handler
<1> QED BY <1>3, <1>4

LEMMA RejectTypes ==
  ASSUME Types, NEW h \in Handler, NEW place, Serves(h, place), place \notin Ended,
         Reject(h), UNCHANGED <<payment, target>>
  PROVE  /\ HandlerTypes'
         /\ \E outcome \in HandlerPlace \ {"none"} : Continue(h, outcome)
         /\ UNCHANGED wire \/ \E answer \in {"token", "error"} : Answer(h, answer)
<1> DEFINE outcome == IF h \in Purchase THEN "refused" ELSE "threw"
<1>1. End(h, outcome) /\ outcome \in Ended \ {"none"} /\ outcome \in HandlerPlace
  BY DEF Reject, Ended, HandlerPlace
<1>2. HandlerTypes'
  BY <1>1, EndTypes DEF Types, ReceiverTypes
<1> QED BY <1>1, <1>2 DEF End, Reject

LEMMA FoundTypes ==
  ASSUME Types, NEW p \in Purchase, findChannel(p)
  PROVE  ReceiverTypes'
<1>1. p \in Handler /\ handler[p] = "find" /\ "validate" \in HandlerPlace \ {"none"}
  BY DEF Handler, HandlerPlace, findChannel, Serves
<1>2. seen' = [g \in Handler |-> seen'[g]]
  BY DEF findChannel, Types, ReceiverTypes, HandlerTypes
<1>3. HandlerTypes'
  BY <1>1, <1>2, ContinueTypes DEF findChannel, Types, ReceiverTypes, Ended
<1> QED BY <1>1, <1>3, TablesTypes DEF findChannel, tables, Types, ReceiverTypes

LEMMA AcceptTypes ==
  ASSUME Types, NEW p \in Purchase, accept(p)
  PROVE  ReceiverTypes'
<1>1. /\ p \in Handler /\ handler[p] = "validate" /\ Serves(p, "validate")
      /\ "validate" \notin Ended /\ "spend" \in HandlerPlace \ {"none"}
      /\ UNCHANGED <<payment, target>>
  BY DEF Handler, HandlerPlace, accept, Serves, Ended
<1>2. /\ tokens' \subseteq tokens \cup ({p} \cap Purchase)
      /\ receiverPayments' \subseteq receiverPayments \cup ({p} \cap Purchase)
  BY DEF accept, storeAccepted
<1>3. receiverRows' \in Seq(RowType)
  <2> DEFINE row == fromPayment(payment[p])
  <2>1. payment[p] \in PaymentType
    BY <1>1 DEF Types, SenderTypes, ReceiverTypes, PurchaseType, HasPayment
  <2>2. row \in RowType
    BY <2>1, MadeRow DEF fromPayment, PaymentType
  <2>3. receiverRows' \in {receiverRows, save(receiverRows, row),
                           saveOrUpdate(receiverRows, row)}
    BY DEF accept
  <2> HIDE DEF row
  <2>4. /\ save(receiverRows, row) \in Seq(RowType)
        /\ saveOrUpdate(receiverRows, row) \in Seq(RowType)
    BY <2>2, SaveRow, SaveOrUpdateRow DEF Types, ReceiverTypes
  <2> QED BY <2>3, <2>4 DEF Types, ReceiverTypes
<1>4. CASE Continue(p, "spend") /\ UNCHANGED <<wire, seen, receiverQueue>>
  <2>1. HandlerTypes'
    BY <1>1, <1>4, ContinueTypes DEF Types, ReceiverTypes, HandlerTypes
  <2> QED BY <1>1, <1>2, <1>3, <1>4, <2>1, TablesTypes
<1>5. CASE Reject(p)
  BY <1>1, <1>2, <1>3, <1>5, RejectTypes, TablesTypes
<1> QED BY <1>4, <1>5 DEF accept

LEMMA ReplyTypes ==
  ASSUME Types, NEW p \in Purchase, reply(p)
  PROVE  ReceiverTypes'
<1>1. /\ p \in Handler /\ handler[p] = "spend" /\ Serves(p, "spend") /\ "spend" \notin Ended
      /\ "accepted" \in Ended \ {"none"} /\ "accepted" \in HandlerPlace \ {"none"}
      /\ End(p, "accepted") /\ Continue(p, "accepted")
      /\ UNCHANGED <<payment, target, tokens, receiverPayments>>
  BY DEF Handler, HandlerPlace, reply, Serves, Ended, End
<1>2. HandlerTypes'
  BY <1>1, EndTypes DEF Types, ReceiverTypes
<1>3. payment[p].value \in Nat
  BY <1>1 DEF Types, SenderTypes, ReceiverTypes, PurchaseType, HasPayment, PaymentType
<1>4. receiverRows' \in Seq(RowType)
  BY <1>3, UpdateRows DEF reply, Types, ReceiverTypes
<1> QED BY <1>1, <1>2, <1>4, TablesTypes DEF reply

LEMMA RefuseTypes ==
  ASSUME Types, NEW p \in Purchase, refuse(p)
  PROVE  ReceiverTypes'
<1>1. /\ p \in Handler /\ handler[p] = "validate" /\ Serves(p, "validate")
      /\ "validate" \notin Ended /\ "lookup" \in HandlerPlace \ {"none"}
      /\ UNCHANGED <<payment, target, tokens, receiverPayments>> /\ receiverRows' \in Seq(RowType)
  BY DEF Handler, HandlerPlace, refuse, Serves, Ended, tables, Types, ReceiverTypes
<1>2. CASE Continue(p, "lookup") /\ UNCHANGED <<wire, seen, receiverQueue>>
  <2>1. HandlerTypes'
    BY <1>1, <1>2, ContinueTypes DEF Types, ReceiverTypes, HandlerTypes
  <2> QED BY <1>1, <1>2, <2>1, TablesTypes
<1>3. CASE Reject(p)
  BY <1>1, <1>3, RejectTypes, TablesTypes
<1> QED BY <1>2, <1>3 DEF refuse

LEMMA LookUpClaimTypes ==
  ASSUME Types, NEW h \in Handler, lookUpClaim(h)
  PROVE  ReceiverTypes'
<1> DEFINE id == ChannelOf(h)
           row == Row(id, escrow[id], 0, channelState(id))
<1>1. /\ handler[h] = "lookup" /\ Serves(h, "lookup")
      /\ "lookup" \notin Ended /\ "claim" \in HandlerPlace \ {"none"}
      /\ UNCHANGED <<payment, target, tokens, receiverPayments>>
  BY DEF lookUpClaim, HandlerPlace, Serves, Ended
<1>2. receiverRows' \in Seq(RowType)
  <2>1. id \in Id /\ escrow[id] \in Nat
    BY <1>1, ActiveHandler DEF Types, ChainTypes, ReceiverTypes
  <2>2. row \in RowType
    BY <2>1, MadeRow DEF channelState
  <2>3. receiverRows' \in {receiverRows, save(receiverRows, row)}
    BY DEF lookUpClaim
  <2> HIDE DEF row
  <2>4. save(receiverRows, row) \in Seq(RowType)
    BY <2>2, SaveRow DEF Types, ReceiverTypes
  <2> QED BY <2>3, <2>4 DEF Types, ReceiverTypes
<1>3. CASE /\ seen' = [seen EXCEPT ![h] = lastPayment(id)]
           /\ Continue(h, "claim")
           /\ UNCHANGED <<wire, receiverQueue>>
  <2>1. seen' = [g \in Handler |-> seen'[g]]
    BY <1>3 DEF Types, ReceiverTypes, HandlerTypes
  <2>2. HandlerTypes'
    BY <1>1, <1>3, <2>1, ContinueTypes DEF Types, ReceiverTypes
  <2> QED BY <1>1, <1>2, <1>3, <2>2, TablesTypes
<1>4. CASE Reject(h)
  BY <1>1, <1>2, <1>4, RejectTypes, TablesTypes
<1> QED BY <1>3, <1>4 DEF lookUpClaim

LEMMA MinedClaimTypes ==
  ASSUME Types, NEW h \in Handler, minedClaim(h)
  PROVE  ReceiverTypes'
<1>1. /\ handler[h] = "claim" /\ Serves(h, "claim")
      /\ "claim" \notin Ended /\ "record" \in HandlerPlace \ {"none"}
      /\ UNCHANGED <<payment, target, tokens, receiverPayments>> /\ receiverRows' \in Seq(RowType)
  BY DEF minedClaim, HandlerPlace, Serves, Ended, tables, Types, ReceiverTypes
<1>2. CASE Continue(h, "record") /\ UNCHANGED <<wire, seen, receiverQueue>>
  <2>1. HandlerTypes'
    BY <1>1, <1>2, ContinueTypes DEF Types, ReceiverTypes, HandlerTypes
  <2> QED BY <1>1, <1>2, <2>1, TablesTypes
<1>3. CASE Reject(h)
  BY <1>1, <1>3, RejectTypes, TablesTypes
<1> QED BY <1>2, <1>3 DEF minedClaim

LEMMA RecordClaimTypes ==
  ASSUME Types, NEW h \in Handler, recordClaim(h)
  PROVE  ReceiverTypes'
<1>1. /\ handler[h] = "record" /\ Serves(h, "record") /\ "record" \notin Ended
      /\ UNCHANGED <<payment, target, tokens, receiverPayments>>
  BY DEF recordClaim, Serves, Ended
<1>2. receiverRows' \in Seq(RowType)
  BY UpdateRows DEF recordClaim, Types, ReceiverTypes
<1>3. CASE Reject(h)
  BY <1>1, <1>2, <1>3, RejectTypes, TablesTypes
<1>4. CASE End(h, "claimed") /\ UNCHANGED wire
  <2>1. "claimed" \in Ended \ {"none"} /\ "claimed" \in HandlerPlace \ {"none"}
    BY DEF Ended, HandlerPlace
  <2>2. HandlerTypes'
    BY <1>1, <1>4, <2>1, EndTypes DEF Types, ReceiverTypes
  <2> QED BY <1>1, <1>2, <1>4, <2>1, <2>2, TablesTypes DEF End
<1> QED BY <1>3, <1>4 DEF recordClaim

LEMMA ReceiverCrashTypes ==
  ASSUME Types, receiverCrash
  PROVE  ReceiverTypes'
<1> USE DEF Types, ReceiverTypes, receiverCrash, tables
<1>1. \A h \in Handler : IF handler[h] \in Ended THEN handler'[h] = handler[h]
                         ELSE handler'[h] \in {"refused", "threw"}
  BY DEF HandlerTypes
<1>2. \A h \in Handler : /\ handler'[h] \in Ended
                         /\ handler'[h] = "none" <=> handler[h] = "none"
                         /\ ChannelOf(h)' = ChannelOf(h)
  BY <1>1 DEF Ended, ChannelOf
<1>3. handler' \in [Handler -> HandlerPlace]
  BY <1>1, <1>2 DEF HandlerPlace
<1>4. HandlerTypes'
  BY <1>2, <1>3 DEF HandlerTypes
<1>5. \A p \in Purchase : wire[p] # "idle" => wire'[p] # "idle"
  BY DEF SenderTypes, DataTypes
<1> QED BY <1>2, <1>4, <1>5 DEF Handler

\* For the sender, a step of the receiver is at most an answer.
LEMMA ReceiverStepOthers ==
  ASSUME Types, ReceiverNext, UNCHANGED senderVars
  PROVE  ChainTypes' /\ SenderTypes'
<1> USE DEF Types
<1>1. ChainTypes'
  <2>1. UNCHANGED chain => ChainTypes'
    BY DEF chain, ChainTypes
  <2>2. ASSUME NEW h \in Handler, minedClaim(h)
        PROVE  ChainTypes'
    <3>1. ChannelOf(h) \in Id
      BY <2>2, ActiveHandler DEF minedClaim, Serves, ReceiverTypes, Ended
    <3> QED BY <2>1, <2>2, <3>1, RedeemTypes DEF minedClaim
  <2> QED BY <2>1, <2>2
          DEF ReceiverNext, ReceiverCall, acceptPayment, closeChannel, receiverCrash,
              findChannel, accept, reply, refuse, lookUpClaim, recordClaim
<1>2. /\ UNCHANGED payment
      /\ wire' \in [Purchase -> {"idle", "request", "token", "error", "lost"}]
      /\ \A p \in Purchase : wire[p] = "idle" <=> wire'[p] = "idle"
  <2> DEFINE Answers == /\ UNCHANGED payment
                        /\ UNCHANGED wire \/ \E h \in Purchase, answer \in {"token", "error"} :
                                                Answer(h, answer)
  <2>1. Answers => <1>2
    BY DEF Answer, SenderTypes, DataTypes
  <2>2. CASE receiverCrash
    BY <2>2 DEF receiverCrash, SenderTypes, DataTypes
  <2>3. ASSUME NEW h \in Handler, Reject(h)
        PROVE  UNCHANGED wire \/ \E p \in Purchase, answer \in {"token", "error"} :
                                    Answer(p, answer)
    BY <2>3 DEF Reject
  <2>4. ASSUME NEW h \in Handler, ReceiverCall(h)
        PROVE  Answers
    BY <2>3, <2>4 DEF ReceiverCall, findChannel, accept, reply, refuse, lookUpClaim, minedClaim,
                      recordClaim, Handler
  <2>5. (\E p \in Purchase : acceptPayment(p)) \/ (\E c \in Claim : closeChannel(c)) => Answers
    BY DEF acceptPayment, closeChannel
  <2> QED BY <2>1, <2>2, <2>4, <2>5 DEF ReceiverNext
<1>3. SenderTypes'
  <2> USE DEF SenderTypes, senderVars, task
  <2>1. TaskTypes' /\ DataTypes'
    BY <1>2 DEF TaskTypes, DataTypes
  <2>2. \A t \in Call : CallType(t)'
    BY DEF CallType, OnChannel, HasRow
  <2>3. \A p \in Purchase : PurchaseType(p)'
    BY <1>2 DEF PurchaseType, HasPayment
  <2> QED BY <2>1, <2>2, <2>3
<1> QED BY <1>1, <1>3

LEMMA ReceiverStepTypes ==
  ASSUME Types, ReceiverNext
  PROVE  ReceiverTypes'
<1>1. ASSUME NEW h \in Handler, ReceiverCall(h)
      PROVE  ReceiverTypes'
  BY <1>1, FoundTypes, AcceptTypes, ReplyTypes, RefuseTypes, LookUpClaimTypes,
     MinedClaimTypes, RecordClaimTypes DEF ReceiverCall
<1> QED BY <1>1, AcceptPaymentTypes, CloseTypes, ReceiverCrashTypes DEF ReceiverNext

LEMMA StepTypes == Types /\ [Next]_vars => Types'
<1> SUFFICES ASSUME Types, [Next]_vars PROVE Types'
  OBVIOUS
<1>1. CASE SenderNext /\ UNCHANGED receiverVars
  BY <1>1, SenderChainTypes, SenderStepTypes, SenderStepReceiverTypes DEF Types
<1>2. CASE ReceiverNext /\ UNCHANGED senderVars
  BY <1>2, ReceiverStepOthers, ReceiverStepTypes DEF Types
<1>3. CASE UNCHANGED <<payment, wire, senderVars, receiverVars>> /\ ChainTypes'
  <2> USE <1>3 DEF senderVars, task, receiverVars, tables
  <2>1. SenderTypes'
    BY DEF Types, SenderTypes, TaskTypes, DataTypes, CallType, PurchaseType, OnChannel, HasRow,
           HasPayment
  <2>2. ReceiverTypes'
    BY DEF Types, ReceiverTypes, HandlerTypes, ChannelOf, Queued
  <2> QED BY <2>1, <2>2, <1>3 DEF Types
<1>4. CASE Expire /\ UNCHANGED <<senderVars, receiverVars>>
  BY <1>3, <1>4, ExpireTypes DEF Expire, Types
<1>5. CASE UNCHANGED vars
  BY <1>3, <1>5 DEF vars, chain, Types, ChainTypes
<1> QED BY <1>1, <1>2, <1>4, <1>5 DEF Next

LEMMA TypesInvariance == Spec => []Types
BY InitTypes, StepTypes, PTL DEF Spec

-----------------------------------------------------------------------------
(* Who may change what: a step belongs to one call or one handler, unless  *)
(* a process crashes or blocks pass.                                       *)

\* A step of the sender by the call t.
SenderTask(t) ==
  \/ t \in Purchase /\ (buy(t) \/ loseConnection(t))
  \/ t \in Opening /\ openChannel(t)
  \/ t \in Deposit \cup Closing /\ begin(t)
  \/ SenderCall(t)

\* A step of the receiver by the handler h.
ReceiverTask(h) ==
  \/ h \in Purchase /\ acceptPayment(h)
  \/ h \in Claim /\ closeChannel(h)
  \/ ReceiverCall(h)

LEMMA SenderTasks == SenderNext => senderCrash \/ \E t \in Call : SenderTask(t)
BY DEF SenderNext, SenderTask, Call

LEMMA ReceiverTasks == ReceiverNext => receiverCrash \/ \E h \in Handler : ReceiverTask(h)
BY DEF ReceiverNext, ReceiverTask, Handler

\* Promises are never taken back.
LEMMA PromisesStay ==
  ASSUME Types, [Next]_vars
  PROVE  promised \subseteq promised'
<1>1. ASSUME NEW t \in Call, SenderTask(t)
      PROVE  promised \subseteq promised'
  <2>1. ASSUME mined(t)
        PROVE  promised \subseteq promised'
    BY <2>1 DEF mined, Transact, Chain!TopUp, Chain!Announce, Chain!Refund, Chain!Divide, chain
  <2>2. ASSUME doPayment(t) \/ internalOpenChannel(t)
        PROVE  promised \subseteq promised'
    BY <2>2 DEF doPayment, sign, Chain!Vow, internalOpenChannel, DidOpen, Chain!Open
  <2> QED BY <1>1, <2>1, <2>2
          DEF SenderTask, SenderCall, chain, buy, loseConnection, openChannel, begin,
              refusedOpen, saveOpened, requireOpenChannel, findUsable, readSpent, nextPayment,
              receiveAnswer, spendChannel, storePayment, lookUp, record
<1>2. ASSUME NEW h \in Handler, ReceiverTask(h)
      PROVE  promised \subseteq promised'
  <2>1. ASSUME minedClaim(h)
        PROVE  promised \subseteq promised'
    BY <2>1 DEF minedClaim, Chain!Redeem, Chain!Divide, chain
  <2> QED BY <1>2, <2>1
          DEF ReceiverTask, ReceiverCall, chain, acceptPayment, closeChannel,
              findChannel, accept, reply, refuse, lookUpClaim, recordClaim
<1>3. senderCrash \/ receiverCrash \/ Expire \/ UNCHANGED vars => promised \subseteq promised'
  BY DEF senderCrash, receiverCrash, Expire, Chain!Expire, vars, chain
<1> QED BY <1>1, <1>2, <1>3, SenderTasks, ReceiverTasks DEF Next

\* A call moves itself only.
LEMMA CallsAlone ==
  ASSUME Types, NEW t \in Call, SenderTask(t)
  PROVE  /\ \A o \in Call \ {t} : pc'[o] = pc[o] /\ at'[o] = at[o] /\ spent'[o] = spent[o]
         /\ \A p \in Purchase \ {t} : payment'[p] = payment[p] /\ wire'[p] = wire[p]
<1> USE DEF Types, SenderTypes, TaskTypes, DataTypes
<1>1. CASE t \in Purchase /\ (buy(t) \/ loseConnection(t))
  BY <1>1 DEF buy, loseConnection, Goto, Finish
<1>2. CASE openChannel(t) \/ begin(t)
  BY <1>2 DEF openChannel, begin, Goto
<1>3. CASE internalOpenChannel(t) \/ refusedOpen(t) \/ saveOpened(t)
  BY <1>3 DEF internalOpenChannel, refusedOpen, saveOpened, Opened, Proceed, Throw, Finish, Goto
<1>4. CASE /\ t \in Purchase
           /\ \/ requireOpenChannel(t) \/ findUsable(t) \/ readSpent(t) \/ nextPayment(t) \/ doPayment(t)
              \/ receiveAnswer(t) \/ spendChannel(t) \/ storePayment(t)
  <2>1. CASE requireOpenChannel(t) \/ findUsable(t) \/ readSpent(t) \/ nextPayment(t)
    BY <1>4, <2>1 DEF requireOpenChannel, findUsable, readSpent, nextPayment, Proceed, Throw, Finish, Goto
  <2>2. CASE doPayment(t) \/ receiveAnswer(t) \/ spendChannel(t) \/ storePayment(t)
    BY <1>4, <2>2 DEF doPayment, receiveAnswer, spendChannel, storePayment, Finish, Goto
  <2> QED BY <1>4, <2>1, <2>2
<1>5. CASE t \in Deposit \cup Closing /\ (lookUp(t) \/ mined(t) \/ record(t))
  BY <1>5 DEF lookUp, mined, record, Throw, Finish, Goto
<1> HIDE DEF Types, SenderTypes, TaskTypes, DataTypes
<1> QED BY <1>1, <1>2, <1>3, <1>4, <1>5 DEF SenderTask, SenderCall

LEMMA HandlersAlone ==
  ASSUME Types, NEW h \in Handler, ReceiverTask(h)
  PROVE  /\ \A g \in Handler \ {h} : handler'[g] = handler[g] /\ seen'[g] = seen[g]
         /\ \A p \in Purchase \ {h} : wire'[p] = wire[p]
         /\ UNCHANGED payment
         /\ tokens \subseteq tokens' /\ receiverPayments \subseteq receiverPayments'
<1> USE DEF Types, SenderTypes, DataTypes, ReceiverTypes, HandlerTypes, tables
<1>1. CASE acceptPayment(h) \/ (h \in Claim /\ closeChannel(h))
  BY <1>1 DEF acceptPayment, closeChannel, Continue
<1>2. ASSUME Reject(h)
      PROVE  /\ \A g \in Handler \ {h} : handler'[g] = handler[g] /\ seen'[g] = seen[g]
             /\ \A p \in Purchase \ {h} : wire'[p] = wire[p]
  BY <1>2 DEF Reject, End, Continue, Answer
<1>3. CASE findChannel(h) \/ (h \in Purchase /\ reply(h))
  BY <1>3 DEF findChannel, reply, End, Continue, Answer
<1>4. CASE accept(h) \/ refuse(h)
  BY <1>2, <1>4 DEF accept, refuse, storeAccepted, Continue
<1>5. CASE lookUpClaim(h) \/ minedClaim(h)
  BY <1>2, <1>5 DEF lookUpClaim, minedClaim, Continue
<1>6. CASE recordClaim(h)
  BY <1>2, <1>6 DEF recordClaim, End, Continue
<1> HIDE DEF Types, SenderTypes, DataTypes, ReceiverTypes, HandlerTypes, tables
<1> QED BY <1>1, <1>3, <1>4, <1>5, <1>6 DEF ReceiverTask, ReceiverCall

-----------------------------------------------------------------------------
(* Progress. *)

\* What ProgressOf(p) reads may grow, and the exchange may move on.
LEMMA ProgressStays ==
  ASSUME NEW p \in Purchase, ProgressOf(p), promised \subseteq promised',
         tokens \subseteq tokens',
         receiverPayments \subseteq receiverPayments',
         payment'[p] = payment[p], wire'[p] = wire[p], handler'[p] = handler[p],
         pc'[p] = "failed" \/ (pc'[p] = pc[p] /\ at'[p] = at[p] /\ spent'[p] = spent[p])
  PROVE  ProgressOf(p)'
BY DEF ProgressOf, Promise

\* Before the payment is signed there is no exchange, and nothing to keep.
LEMMA ProgressBegins ==
  ASSUME Types, Types', NEW p \in Purchase, wire'[p] = "idle",
         pc'[p] \notin {"sign", "sent", "spend", "store"}
  PROVE  ProgressOf(p)'
BY DEF Types, ReceiverTypes, ProgressOf, Handler

LEMMA PurchaseProgress ==
  ASSUME Types, Types', NEW p \in Purchase, ProgressOf(p), SenderTask(p),
         promised \subseteq promised', UNCHANGED receiverVars
  PROVE  ProgressOf(p)'
<1> USE DEF receiverVars, tables
<1>2. pc \in [Call -> Place] /\ wire \in [Purchase -> {"idle", "request", "token", "error", "lost"}]
      /\ payment \in [Purchase -> PaymentType \cup {NoPayment}] /\ p \in Call
      /\ (wire[p] # "idle" => pc[p] \in {"sent", "spend", "store", "failed"})
  BY DEF Call, Types, SenderTypes, TaskTypes, DataTypes, PurchaseType
<1>3. CASE buy(p) \/ openChannel(p) \/ begin(p) \/ internalOpenChannel(p) \/ refusedOpen(p)
  <2>1. wire'[p] = "idle" /\ pc'[p] \in {"find", "open", "lookup", "save", "failed"}
    BY <1>2, <1>3 DEF buy, openChannel, begin, internalOpenChannel, refusedOpen, Runs,
                      Throw, Finish, Goto
  <2> QED BY <2>1, ProgressBegins
<1>4. CASE saveOpened(p) \/ requireOpenChannel(p) \/ findUsable(p) \/ readSpent(p)
  <2>1. wire'[p] = "idle" /\ pc'[p] \in {"inflate", "open", "read", "check", "failed", "done"}
    BY <1>2, <1>4 DEF saveOpened, requireOpenChannel, findUsable, readSpent, Runs, Opened, Proceed,
                      Throw, Finish, Goto
  <2> QED BY <2>1, ProgressBegins
<1>5. CASE nextPayment(p)
  <2>1. wire'[p] = "idle"
    BY <1>2, <1>5 DEF nextPayment, Runs
  <2>2. \/ pc'[p] = "failed"
        \/ /\ pc'[p] = "sign" /\ at'[p] = at[p] /\ spent'[p] = spent[p]
           /\ payment'[p] = buildPaymentForChannel(p, escrow[at[p]])
    BY <1>2, <1>5 DEF nextPayment, Throw, Finish, Goto
  <2>3. handler'[p] = "none"
    BY <2>1 DEF Types, ReceiverTypes
  <2> QED BY <2>1, <2>2, <2>3
          DEF ProgressOf, buildPaymentForChannel, toSpend, Types, ReceiverTypes
<1>6. CASE doPayment(p)
  <2>1. /\ pc[p] = "sign" /\ pc'[p] = "sent" /\ wire'[p] = "request"
        /\ payment' = payment /\ at' = at /\ spent' = spent
        /\ Promise(p) \in promised'
    BY <1>2, <1>6 DEF doPayment, Runs, Goto, sign, Chain!Vow, ProgressOf, Promise
  <2>2. handler[p] = "none"
    BY <1>2, <2>1 DEF Types, ReceiverTypes
  <2> QED BY <2>1, <2>2 DEF ProgressOf, Promise
<1>7. CASE receiveAnswer(p) \/ spendChannel(p) \/ storePayment(p)
  BY <1>2, <1>7 DEF receiveAnswer, spendChannel, storePayment, chain, Goto, Finish, ProgressOf,
                    Promise
<1>8. CASE loseConnection(p)
  BY <1>2, <1>8 DEF loseConnection, chain, Finish, Goto, ProgressOf, Promise
<1>9. CASE lookUp(p) \/ mined(p) \/ record(p)
  <2>1. /\ wire'[p] = "idle"
        /\ pc'[p] \in {"topup", "startSettle", "finishSettle", "credit", "announced",
                       "refunded", "failed", "done"}
    BY <1>2, <1>9 DEF lookUp, mined, record, Runs, Label, After, Throw, Finish, Goto
  <2> QED BY <2>1, ProgressBegins
<1> QED BY <1>3, <1>4, <1>5, <1>6, <1>7, <1>8, <1>9 DEF SenderTask, SenderCall

LEMMA HandlerProgress ==
  ASSUME Types, NEW p \in Purchase, ProgressOf(p), ReceiverTask(p),
         promised \subseteq promised', UNCHANGED senderVars
  PROVE  ProgressOf(p)'
<1> USE DEF senderVars, task
<1>1. /\ p \in Handler /\ handler \in [Handler -> HandlerPlace] /\ UNCHANGED payment
      /\ wire \in [Purchase -> {"idle", "request", "token", "error", "lost"}]
      /\ tokens \subseteq tokens' /\ receiverPayments \subseteq receiverPayments'
  BY HandlersAlone DEF Handler, Types, SenderTypes, DataTypes, ReceiverTypes, HandlerTypes
<1>2. ASSUME handler'[p] \notin {"spend", "accepted"}, wire'[p] = wire[p] \/ Answer(p, "error")
      PROVE  ProgressOf(p)'
  BY <1>1, <1>2 DEF ProgressOf, Promise, Answer
<1>3. ASSUME Reject(p)
      PROVE  ProgressOf(p)'
  BY <1>1, <1>2, <1>3 DEF Reject, End, Continue
<1>4. CASE acceptPayment(p) \/ findChannel(p) \/ refuse(p)
  BY <1>1, <1>2, <1>3, <1>4 DEF acceptPayment, findChannel, refuse, Continue
<1>5. CASE accept(p)
  <2>1. CASE /\ Continue(p, "spend") /\ UNCHANGED wire
             /\ p \in tokens' \cap receiverPayments'
    BY <1>1, <2>1 DEF Continue, ProgressOf, Promise
  <2> QED BY <1>1, <1>3, <1>5, <2>1 DEF accept, storeAccepted, Inserts
<1>6. CASE reply(p)
  BY <1>1, <1>6 DEF reply, Serves, End, Continue, Answer, ProgressOf, Promise
<1>7. CASE lookUpClaim(p) \/ minedClaim(p) \/ recordClaim(p)
  BY <1>1, <1>2, <1>3, <1>7 DEF lookUpClaim, minedClaim, recordClaim, Continue, End
<1>8. CASE p \in Claim /\ closeChannel(p)
  BY <1>1, <1>2, <1>8 DEF closeChannel, Continue
<1> QED BY <1>4, <1>5, <1>6, <1>7, <1>8 DEF ReceiverTask, ReceiverCall

LEMMA InitProgress == Init => Progress
BY DEF Init, NetworkInit, SenderInit, ReceiverInit, Progress, ProgressOf, Call, Handler

LEMMA StepProgress == Types /\ Types' /\ Progress /\ [Next]_vars => Progress'
<1> SUFFICES ASSUME Types, Types', Progress, [Next]_vars, NEW p \in Purchase
             PROVE  ProgressOf(p)'
  BY DEF Progress
<1> promised \subseteq promised' /\ ProgressOf(p) /\ p \in Call /\ p \in Handler
  BY PromisesStay DEF Progress, Call, Handler
<1>1. ASSUME NEW t \in Call, SenderTask(t), UNCHANGED receiverVars
      PROVE  ProgressOf(p)'
  BY <1>1, CallsAlone, PurchaseProgress, ProgressStays DEF receiverVars, tables
<1>2. ASSUME NEW h \in Handler, ReceiverTask(h), UNCHANGED senderVars
      PROVE  ProgressOf(p)'
  BY <1>2, HandlersAlone, HandlerProgress, ProgressStays DEF senderVars, task
<1>3. CASE senderCrash /\ UNCHANGED receiverVars
  BY <1>3 DEF senderCrash, receiverVars, tables, Over, ProgressOf, Promise
<1>4. CASE receiverCrash /\ UNCHANGED senderVars
  BY <1>4 DEF receiverCrash, senderVars, tables, task, Ended, ProgressOf, Promise
<1>5. CASE (Expire /\ UNCHANGED <<senderVars, receiverVars>>) \/ UNCHANGED vars
  BY <1>5, ProgressStays
     DEF Expire, vars, chain, senderVars, receiverVars, tables, task
<1> QED BY <1>1, <1>2, <1>3, <1>4, <1>5, SenderTasks, ReceiverTasks DEF Next

LEMMA ProgressInvariance == Spec => []Progress
BY InitProgress, StepProgress, TypesInvariance, PTL DEF Spec

(* A token is answered only when it is stored with its payment:             *)
(* acceptPayment answers after its two inserts.  For any engine, crashes,   *)
(* lost answers and overlapping purchases.                                  *)
THEOREM PurchasesAreStored == Spec => []AnsweredIsStored
<1>1. Progress => AnsweredIsStored
  BY DEF Progress, ProgressOf, AnsweredIsStored
<1> QED BY <1>1, ProgressInvariance, PTL

-----------------------------------------------------------------------------
(* Covered. *)

\* What the money of a channel may do in one step of the two processes: it
\* grows, or the channel is gone, or the channel is new.
Opens(id) == Fresh(id) /\ \E t \in Purchase \cup Opening : internalOpenChannel(t)
Stays(id) == /\ phase[id] # "none" /\ escrow[id] <= escrow'[id]
             /\ phase'[id] = "open" => phase[id] = "open"
             /\ phase[id] = "expired" => phase'[id] = "expired"

LEMMA ChannelStays ==
  ASSUME Types, [Next]_vars, NEW id \in Id, phase'[id] # "none"
  PROVE  Stays(id) \/ Opens(id)
<1> USE DEF Types, ChainTypes
<1>1. UNCHANGED <<phase, escrow>> => Stays(id)
  BY DEF Stays
<1>2. ASSUME NEW t \in Call, SenderTask(t)
      PROVE  Stays(id) \/ Opens(id)
  <2>1. CASE t \in Purchase \cup Opening /\ internalOpenChannel(t)
    <3>1. PICK new \in Id : Fresh(new) /\ DidOpen(new, t)
      BY <2>1 DEF internalOpenChannel
    <3>2. CASE new = id
      BY <2>1, <3>1, <3>2 DEF Opens
    <3>3. CASE new # id
      BY <3>1, <3>3 DEF DidOpen, Chain!Open, Stays
    <3> QED BY <3>2, <3>3
  <2>2. CASE t \in Deposit \cup Closing /\ mined(t)
    <3>1. at[t] \in Id /\ (pc[t] = "topup" => Extra[t] \in Nat)
      BY <2>2, CallAssumption DEF mined, SenderTypes, CallType, OnChannel, Over, Call
    <3>2. CASE pc[t] = "topup" /\ Chain!TopUp(at[t], Extra[t])
      BY <3>1, <3>2 DEF Chain!TopUp, Stays
    <3>3. CASE Chain!Announce(at[t])
      BY <3>1, <3>3 DEF Chain!Announce, Stays
    <3>4. CASE Chain!Refund(at[t])
      BY <3>1, <3>4 DEF Chain!Refund, Chain!Divide, Stays
    <3> QED BY <1>1, <2>2, <3>2, <3>3, <3>4 DEF mined, Transact, chain
  <2>3. CASE doPayment(t)
    BY <1>1, <2>3 DEF doPayment, sign, Chain!Vow
  <2> QED BY <1>1, <1>2, <2>1, <2>2, <2>3
          DEF SenderTask, SenderCall, chain, buy, loseConnection, openChannel, begin,
              refusedOpen, saveOpened, requireOpenChannel, findUsable, readSpent, nextPayment,
              receiveAnswer, spendChannel, storePayment, lookUp, record
<1>3. ASSUME NEW h \in Handler, ReceiverTask(h)
      PROVE  Stays(id) \/ Opens(id)
  <2>1. ASSUME minedClaim(h)
        PROVE  Stays(id)
    BY <1>1, <2>1 DEF minedClaim, Chain!Redeem, Chain!Divide, chain, Stays
  <2> QED BY <1>1, <1>3, <2>1
          DEF ReceiverTask, ReceiverCall, chain, acceptPayment, closeChannel,
              findChannel, accept, reply, refuse, lookUpClaim, recordClaim
<1>4. CASE Expire
  BY <1>4 DEF Expire, Chain!Expire, Stays
<1> QED BY <1>1, <1>2, <1>3, <1>4, SenderTasks, ReceiverTasks
        DEF Next, senderCrash, receiverCrash, vars, chain

\* Only doPayment makes a promise, and it opens no channel.
LEMMA PromiseMade ==
  ASSUME Types, [Next]_vars, NEW promise \in promised' \ promised
  PROVE  /\ \E p \in Purchase : doPayment(p) /\ promise.id = at[p]
                                             /\ promise.amount = payment[p].value
         /\ UNCHANGED <<phase, escrow>>
<1>1. ASSUME NEW t \in Call, SenderTask(t)
      PROVE  \/ promised' = promised
             \/ t \in Purchase /\ doPayment(t)
  <2>1. ASSUME mined(t) \/ internalOpenChannel(t)
        PROVE  promised' = promised
    BY <2>1 DEF mined, Transact, Chain!TopUp, Chain!Announce, Chain!Refund, Chain!Divide, chain,
                internalOpenChannel, DidOpen, Chain!Open
  <2> QED BY <1>1, <2>1
          DEF SenderTask, SenderCall, chain, buy, loseConnection, openChannel, begin,
              refusedOpen, saveOpened, requireOpenChannel, findUsable, readSpent, nextPayment,
              receiveAnswer, spendChannel, storePayment, lookUp, record
<1>2. ASSUME NEW h \in Handler, ReceiverTask(h)
      PROVE  promised' = promised
  <2>1. ASSUME minedClaim(h)
        PROVE  promised' = promised
    BY <2>1 DEF minedClaim, Chain!Redeem, Chain!Divide, chain
  <2> QED BY <1>2, <2>1
          DEF ReceiverTask, ReceiverCall, chain, acceptPayment, closeChannel,
              findChannel, accept, reply, refuse, lookUpClaim, recordClaim
<1>3. senderCrash \/ receiverCrash \/ Expire \/ UNCHANGED vars => promised' = promised
  BY DEF senderCrash, receiverCrash, Expire, Chain!Expire, vars, chain
<1>4. PICK p \in Purchase : doPayment(p)
  BY <1>1, <1>2, <1>3, SenderTasks, ReceiverTasks DEF Next
<1>5. /\ promised' = promised \cup {[signer |-> Sender, id |-> at[p], amount |-> payment[p].value]}
      /\ UNCHANGED <<phase, escrow>>
  BY <1>4 DEF doPayment, sign, Chain!Vow
<1>6. promise = [signer |-> Sender, id |-> at[p], amount |-> payment[p].value]
  BY <1>5
<1>7. promise.id = at[p] /\ promise.amount = payment[p].value
  BY <1>6
<1> QED BY <1>4, <1>5, <1>7

LEMMA InitCovered == Init => Covered
BY DEF Init, NetworkInit, SenderInit, Chain!Init, Covered, PromisesAreCovered, Call

LEMMA StepCovered == Types /\ Types' /\ Covered /\ [Next]_vars => Covered'
<1> SUFFICES ASSUME Types, Types', Covered, [Next]_vars
             PROVE  Covered'
  OBVIOUS
<1>1. ASSUME NEW promise \in promised', phase'[promise.id] # "none"
      PROVE  promise.amount <= escrow'[promise.id]
  <2> DEFINE id == promise.id
  <2>1. id \in Id /\ promise.amount \in Nat /\ escrow[id] \in Nat /\ escrow'[id] \in Nat
    BY DEF Types, ChainTypes
  <2>2. CASE promise \in promised
    <3>1. ~ Opens(id)
      BY <2>2 DEF Opens, Fresh
    <3>2. Stays(id)
      BY <1>1, <2>1, <3>1, ChannelStays
    <3>3. promise.amount <= escrow[id]
      BY <2>2, <3>2 DEF Covered, PromisesAreCovered, Stays
    <3> QED BY <2>1, <3>2, <3>3 DEF Stays
  <2>3. CASE promise \notin promised
    BY <1>1, <2>3, PromiseMade DEF Covered, doPayment, Runs
  <2> QED BY <2>2, <2>3
<1>2. ASSUME NEW p \in Purchase, pc'[p] = "sign", phase'[at'[p]] # "none"
      PROVE  payment'[p].value <= escrow'[at'[p]]
  <2>1. p \in Call /\ at'[p] \in Id /\ payment'[p] \in PaymentType
    BY <1>2 DEF Types, SenderTypes, CallType, PurchaseType, OnChannel, HasPayment, Over, Call
  <2>2. \/ /\ UNCHANGED <<phase, escrow>>
           /\ at'[p] = at[p]
           /\ payment'[p] = buildPaymentForChannel(p, escrow[at[p]])
           /\ covers(p, escrow[at[p]])
        \/ pc[p] = "sign" /\ at'[p] = at[p] /\ payment'[p] = payment[p]
    <3> DEFINE Kept == pc[p] = "sign" /\ at'[p] = at[p] /\ payment'[p] = payment[p]
    <3>1. ASSUME NEW t \in Call, t # p, SenderTask(t)
          PROVE  Kept
      BY <1>2, <2>1, <3>1, CallsAlone
    <3>2. CASE nextPayment(p)
      <4>1. Goto(p, "sign") \/ Goto(p, "failed")
        BY <3>2 DEF nextPayment, Throw, Finish
      <4> QED BY <1>2, <2>1, <3>2, <4>1
              DEF nextPayment, chain, Throw, Finish, Goto, Types, SenderTypes, TaskTypes, DataTypes
    <3>3. ASSUME SenderTask(p)
          PROVE  nextPayment(p)
      <4> USE <2>1 DEF Types, SenderTypes, TaskTypes
      <4>1. ~ (buy(p) \/ loseConnection(p) \/ openChannel(p) \/ begin(p))
        BY <1>2 DEF buy, loseConnection, openChannel, begin, Goto, Finish
      <4>2. ~ (internalOpenChannel(p) \/ refusedOpen(p) \/ saveOpened(p) \/ requireOpenChannel(p)
               \/ findUsable(p) \/ readSpent(p))
        BY <1>2 DEF internalOpenChannel, refusedOpen, saveOpened, requireOpenChannel, findUsable,
                    readSpent, Opened, Proceed, Throw, Goto, Finish
      <4>3. ~ (doPayment(p) \/ receiveAnswer(p) \/ spendChannel(p) \/ storePayment(p))
        BY <1>2 DEF doPayment, receiveAnswer, spendChannel, storePayment, Goto, Finish
      <4>4. ~ (lookUp(p) \/ mined(p) \/ record(p))
        BY <1>2 DEF lookUp, mined, record, Label, After, Throw, Goto, Finish
      <4> QED BY <3>3, <4>1, <4>2, <4>3, <4>4 DEF SenderTask, SenderCall
    <3>4. CASE SenderNext
      <4>1. ~ senderCrash
        BY <1>2, <2>1 DEF senderCrash, Over
      <4> QED BY <3>1, <3>2, <3>3, <3>4, <4>1, SenderTasks
    <3>5. CASE UNCHANGED <<senderVars, payment>>
      BY <1>2, <3>5 DEF senderVars, task
    <3>6. ReceiverNext => UNCHANGED payment
      <4>1. receiverCrash => UNCHANGED payment
        BY DEF receiverCrash
      <4> QED BY <4>1, HandlersAlone, ReceiverTasks
    <3> QED BY <3>4, <3>5, <3>6 DEF Next, Expire, vars
  <2>3. CASE pc[p] = "sign" /\ at'[p] = at[p] /\ payment'[p] = payment[p]
    <3>1. ~ Opens(at[p])
      BY <2>1 DEF Opens, Fresh
    <3>2. Stays(at[p])
      BY <1>2, <2>1, <2>3, <3>1, ChannelStays
    <3>3. payment[p].value <= escrow[at[p]]
      BY <2>3, <3>2 DEF Covered, Stays
    <3>4. payment[p].value \in Nat /\ escrow[at[p]] \in Nat /\ escrow'[at[p]] \in Nat
      BY <2>1, <2>3 DEF PaymentType, Types, ChainTypes
    <3> QED BY <2>3, <3>2, <3>3, <3>4 DEF Stays
  <2>4. CASE /\ UNCHANGED <<phase, escrow>> /\ at'[p] = at[p]
             /\ payment'[p] = buildPaymentForChannel(p, escrow[at[p]])
             /\ covers(p, escrow[at[p]])
    BY <2>4 DEF buildPaymentForChannel, toSpend, covers
  <2> QED BY <2>2, <2>3, <2>4
<1> QED BY <1>1, <1>2 DEF Covered, PromisesAreCovered

LEMMA CoveredInvariance == Spec => []Covered
BY InitCovered, StepCovered, TypesInvariance, PTL DEF Spec

(* The money of a channel covers every promise the sender signed for it,    *)
(* as long as the channel exists: nextPayment compares with the value that  *)
(* it has read from the chain, under the key that deposits and closings     *)
(* take as well.  For any number of purchases at once and any faults.       *)
THEOREM PromisesStayCovered == Spec => []PromisesAreCovered
<1>1. Covered => PromisesAreCovered
  BY DEF Covered
<1> QED BY <1>1, CoveredInvariance, PTL

-----------------------------------------------------------------------------
(* RowsFollow. *)

LEMMA OpenUpdate ==
  ASSUME NEW rows \in Seq(RowType), OpenRows(rows), NEW id, NEW amount, NEW state
  PROVE  /\ OpenRows(spend(rows, id, amount))
         /\ OpenRows(updateValue(rows, id, amount))
         /\ phase[id] # "open" => OpenRows(updateState(rows, id, state))
<1> \A i \in DOMAIN rows : rows[i] \in RowType
  OBVIOUS
<1>1. OpenRows(spend(rows, id, amount))
  BY DEF OpenRows, spend, UpdateRow, RowType
<1>2. OpenRows(updateValue(rows, id, amount))
  BY DEF OpenRows, updateValue, UpdateRow, RowType
<1>3. ASSUME phase[id] # "open" PROVE OpenRows(updateState(rows, id, state))
  BY <1>3 DEF OpenRows, updateState, UpdateRow, RowType
<1> QED BY <1>1, <1>2, <1>3

LEMMA OpenSave ==
  ASSUME NEW rows \in Seq(RowType), OpenRows(rows), NEW row \in RowType,
         phase[row.id] = "open" => row.state = Open
  PROVE  OpenRows(save(rows, row)) /\ OpenRows(saveOrUpdate(rows, row))
<1>1. OpenRows(save(rows, row))
  <2> DEFINE new == save(rows, row)
  <2>1. /\ DOMAIN new = DOMAIN rows \cup {Len(rows) + 1}
        /\ \A i \in DOMAIN rows : new[i] = rows[i]
        /\ new[Len(rows) + 1] = row
    BY SaveRow
  <2> HIDE DEF new
  <2>2. OpenRows(new)
    BY <2>1 DEF OpenRows
  <2> QED BY <2>2 DEF new
<1> QED BY <1>1, OpenUpdate DEF saveOrUpdate

\* A channel opens on the chain only while nobody has a row of it.
LEMMA OpenRowsStay ==
  ASSUME NEW rows \in Seq(RowType), OpenRows(rows), rows = senderRows \/ rows = receiverRows,
         Remembered, Types, [Next]_vars
  PROVE  \A i \in DOMAIN rows : phase'[rows[i].id] = "open" => rows[i].state = Open
<1> SUFFICES ASSUME NEW i \in DOMAIN rows, phase'[rows[i].id] = "open"
             PROVE  phase[rows[i].id] = "open"
  BY DEF OpenRows
<1> DEFINE id == rows[i].id
<1>1. id \in Id /\ Knows(rows, id)
  <2>1. rows[i] \in RowType
    OBVIOUS
  <2> QED BY <2>1 DEF RowType, Knows
<1>2. ~ Opens(id)
  BY <1>1 DEF Opens, Fresh, Remembered, Promised
<1> QED BY <1>1, <1>2, ChannelStays DEF Stays

\* What each step does to the table of the sender.
LEMMA SenderRowsFollow ==
  ASSUME Types, RowsFollow, SenderNext
  PROVE  senderRows' = senderRows \/ (OpenRows(senderRows') /\ UNCHANGED chain)
<1> USE DEF Types, RowsFollow
<1> senderRows \in Seq(RowType) /\ OpenRows(senderRows)
  BY DEF SenderTypes, DataTypes
<1>1. ASSUME NEW t \in Purchase \cup Opening, saveOpened(t), senderRows' # senderRows
      PROVE  OpenRows(senderRows')
  <2> DEFINE row == Row(at[t], DepositAmount(t), 0, Open)
  <2>1. at[t] \in Id
    BY <1>1 DEF saveOpened, Runs, SenderTypes, CallType, OnChannel, Over, Call
  <2>2. row \in RowType /\ row.state = Open
    BY <2>1, MadeRow, DepositAmountIsAmount DEF Row
  <2>3. senderRows' = save(senderRows, row)
    BY <1>1 DEF saveOpened
  <2> HIDE DEF row
  <2> QED BY <2>2, <2>3, OpenSave
<1>2. ASSUME NEW p \in Purchase, spendChannel(p)
      PROVE  OpenRows(senderRows')
  <2> DEFINE row == fromPayment(payment[p])
  <2>1. payment[p] \in PaymentType
    BY <1>2 DEF spendChannel, SenderTypes, PurchaseType, HasPayment
  <2>2. row \in RowType /\ row.state = Open
    BY <2>1, MadeRow DEF fromPayment, PaymentType, Row
  <2>3. senderRows' = saveOrUpdate(senderRows, row)
    BY <1>2 DEF spendChannel
  <2> HIDE DEF row
  <2> QED BY <2>2, <2>3, OpenSave
<1>3. ASSUME NEW t \in Deposit \cup Closing, lookUp(t), senderRows' # senderRows
      PROVE  OpenRows(senderRows')
  <2> DEFINE id == at[t]
             row == Row(id, escrow[id], 0, channelState(id))
  <2>1. id \in Id /\ escrow[id] \in Nat
    BY <1>3 DEF lookUp, Runs, SenderTypes, ChainTypes, CallType, OnChannel, Over, Call
  <2>2. row \in RowType /\ (phase[row.id] = "open" => row.state = Open)
    BY <2>1, MadeRow DEF Row, channelState
  <2>3. senderRows' = save(senderRows, row)
    BY <1>3 DEF lookUp, Recovered
  <2> HIDE DEF row
  <2> QED BY <2>2, <2>3, OpenSave
<1>4. ASSUME NEW t \in Deposit \cup Closing, record(t)
      PROVE  OpenRows(senderRows')
  BY <1>4, OpenUpdate DEF record, Update, SettlingFollows, Call
<1> QED BY <1>1, <1>2, <1>3, <1>4
        DEF SenderNext, SenderCall, chain, buy, loseConnection, openChannel, begin, senderCrash,
            refusedOpen, internalOpenChannel, saveOpened, requireOpenChannel, findUsable, readSpent,
            nextPayment, doPayment, receiveAnswer, spendChannel, storePayment, lookUp, mined, record

\* A row that the receiver adds is of a channel on the chain.
LEMMA ReceiverRowsFollow ==
  ASSUME Types, RowsFollow, ReceiverNext
  PROVE  \/ receiverRows' = receiverRows
         \/ /\ OpenRows(receiverRows') /\ UNCHANGED chain
            /\ \A id : Knows(receiverRows', id) => Knows(receiverRows, id) \/ phase[id] # "none"
<1> USE DEF Types, RowsFollow, tables
<1> DEFINE Good == /\ OpenRows(receiverRows')
                   /\ \A id : Knows(receiverRows', id) =>
                                Knows(receiverRows, id) \/ phase[id] # "none"
<1> receiverRows \in Seq(RowType) /\ OpenRows(receiverRows)
  BY DEF ReceiverTypes
<1>1. ASSUME NEW row \in RowType, phase[row.id] # "none",
             phase[row.id] = "open" => row.state = Open,
             receiverRows' = save(receiverRows, row)
      PROVE  Good
  BY <1>1, OpenSave, SaveRow
<1>2. ASSUME NEW h \in Purchase, accept(h), receiverRows' # receiverRows
      PROVE  Good
  <2> DEFINE row == fromPayment(payment[h])
  <2>1. payment[h] \in PaymentType
    BY <1>2 DEF accept, Serves, SenderTypes, ReceiverTypes, PurchaseType, HasPayment, Handler
  <2>2. row \in RowType /\ row.state = Open /\ row.id = payment[h].id
    BY <2>1, MadeRow DEF fromPayment, PaymentType, Row
  <2>3. phase[payment[h].id] # "none"
    BY <1>2 DEF accept, isValid, canClaim
  <2>4. receiverRows' = save(receiverRows, row) \/ receiverRows' = saveOrUpdate(receiverRows, row)
    BY <1>2 DEF accept
  <2> HIDE DEF row
  <2>5. CASE receiverRows' = save(receiverRows, row)
    BY <1>1, <2>2, <2>3, <2>5
  <2>6. CASE receiverRows' = saveOrUpdate(receiverRows, row)
    BY <2>2, <2>3, <2>6, OpenSave, SaveOrUpdateRow
  <2> QED BY <2>4, <2>5, <2>6
<1>3. ASSUME NEW h \in Handler, lookUpClaim(h), receiverRows' # receiverRows
      PROVE  Good
  <2> DEFINE id == ChannelOf(h)
             row == Row(id, escrow[id], 0, channelState(id))
  <2>1. id \in Id /\ escrow[id] \in Nat
    BY <1>3, ActiveHandler DEF lookUpClaim, Serves, Ended, ReceiverTypes, ChainTypes
  <2>2. row \in RowType /\ row.id = id /\ (phase[id] = "open" => row.state = Open)
    BY <2>1, MadeRow DEF Row, channelState
  <2>3. receiverRows' = save(receiverRows, row) /\ phase[id] # "none"
    BY <1>3 DEF lookUpClaim
  <2> HIDE DEF row
  <2> QED BY <1>1, <2>2, <2>3
<1>4. ASSUME NEW h \in Purchase, reply(h)
      PROVE  Good
  <2>1. payment[h].value \in Nat
    BY <1>4 DEF reply, Serves, SenderTypes, ReceiverTypes, PurchaseType, HasPayment, Handler,
                PaymentType
  <2> QED BY <1>4, <2>1, OpenUpdate, UpdateRows DEF reply
<1>5. ASSUME NEW h \in Handler, recordClaim(h)
      PROVE  Good
  <2>1. phase[ChannelOf(h)] # "open"
    BY <1>5 DEF recordClaim, Serves, ClaimFollows
  <2> QED BY <1>5, <2>1, OpenUpdate, UpdateRows DEF recordClaim
<1> HIDE DEF Good
<1>6. receiverRows' = receiverRows \/ (Good /\ UNCHANGED chain)
  BY <1>2, <1>3, <1>4, <1>5
     DEF ReceiverNext, ReceiverCall, acceptPayment, closeChannel, receiverCrash, findChannel,
         accept, reply, refuse, lookUpClaim, minedClaim, recordClaim
<1> QED BY <1>6 DEF Good

LEMMA SenderRowsGrow ==
  ASSUME Types, [Next]_vars, NEW id, Knows(senderRows, id)
  PROVE  Knows(senderRows', id)
<1> USE DEF Types
<1> senderRows \in Seq(RowType)
  BY DEF SenderTypes, DataTypes
<1> DEFINE Kept == Knows(senderRows', id)
<1>1. senderRows' = senderRows => Kept
  OBVIOUS
<1>2. ASSUME NEW t \in Purchase \cup Opening, saveOpened(t), senderRows' # senderRows
      PROVE  Kept
  <2> DEFINE row == Row(at[t], DepositAmount(t), 0, Open)
  <2>1. at[t] \in Id
    BY <1>2 DEF saveOpened, Runs, SenderTypes, CallType, OnChannel, Over, Call
  <2>2. row \in RowType
    BY <2>1, MadeRow, DepositAmountIsAmount
  <2>3. senderRows' = save(senderRows, row)
    BY <1>2 DEF saveOpened
  <2> HIDE DEF row
  <2> QED BY <2>2, <2>3, SaveRow
<1>3. ASSUME NEW p \in Purchase, spendChannel(p)
      PROVE  Kept
  <2> DEFINE row == fromPayment(payment[p])
  <2>1. payment[p] \in PaymentType
    BY <1>3 DEF spendChannel, SenderTypes, PurchaseType, HasPayment
  <2>2. row \in RowType
    BY <2>1, MadeRow DEF fromPayment, PaymentType
  <2>3. senderRows' = saveOrUpdate(senderRows, row)
    BY <1>3 DEF spendChannel
  <2> HIDE DEF row
  <2> QED BY <2>2, <2>3, SaveOrUpdateRow
<1>4. ASSUME NEW t \in Deposit \cup Closing, lookUp(t), senderRows' # senderRows
      PROVE  Kept
  <2>1. at[t] \in Id /\ escrow[at[t]] \in Nat
    BY <1>4 DEF lookUp, Runs, SenderTypes, ChainTypes, CallType, OnChannel, Over, Call
  <2>2. senderRows' = Recovered(senderRows, at[t])
    BY <1>4 DEF lookUp
  <2> QED BY <2>1, <2>2, RecoveredRows
<1>5. ASSUME NEW t \in Deposit \cup Closing, record(t)
      PROVE  Kept
  <2>1. t \in Call /\ (pc[t] = "credit" => t \in Deposit /\ at[t] \in Id)
    BY <1>5 DEF SenderTypes, CallType, OnChannel, Over, Call, record
  <2>2. pc[t] = "credit" => escrow[at[t]] + Extra[t] \in Nat
    BY <2>1, CallAssumption DEF ChainTypes
  <2>3. PICK amount \in Nat, state \in {Settling, Settled} :
          senderRows' \in {updateValue(senderRows, at[t], amount),
                           updateState(senderRows, at[t], state)}
    BY <1>5, <2>2 DEF record, Update
  <2> QED BY <2>3, UpdateRows
<1> HIDE DEF Kept
<1>6. SenderNext => Kept
  BY <1>1, <1>2, <1>3, <1>4, <1>5
        DEF SenderNext, SenderCall, buy, loseConnection, openChannel, begin, senderCrash,
            refusedOpen, internalOpenChannel, saveOpened, requireOpenChannel, findUsable, readSpent,
            nextPayment, doPayment, receiveAnswer, spendChannel, storePayment, lookUp, mined, record
<1> QED BY <1>1, <1>6 DEF Next, vars, senderVars, Kept

\* The money of a channel leaves it for a known channel, or for a promise.
LEMMA ChannelGone ==
  ASSUME Types, [Next]_vars, NEW id \in Id, phase[id] # "none", phase'[id] = "none"
  PROVE  Knows(senderRows, id) \/ Promised(id)
<1> USE DEF Types, ChainTypes
<1>1. UNCHANGED phase => FALSE
  OBVIOUS
<1>2. ASSUME NEW t \in Call, SenderTask(t)
      PROVE  Knows(senderRows, id)
  <2>1. ~ doPayment(t) /\ ~ internalOpenChannel(t)
    BY <1>1 DEF doPayment, sign, Chain!Vow, internalOpenChannel, DidOpen, Chain!Open
  <2>2. mined(t)
    BY <1>1, <1>2, <2>1
          DEF SenderTask, SenderCall, chain, buy, loseConnection, openChannel, begin,
              refusedOpen, saveOpened, requireOpenChannel, findUsable, readSpent, nextPayment,
              receiveAnswer, spendChannel, storePayment, lookUp, record
  <2>3. at[t] = id
    BY <1>1, <2>2 DEF mined, Transact, Chain!TopUp, Chain!Announce, Chain!Refund, Chain!Divide,
                      chain
  <2>4. HasRow(t)
    BY <2>2 DEF mined, HasRow, OnChannel, Over
  <2> QED BY <2>3, <2>4 DEF SenderTypes, CallType
<1>3. ASSUME NEW h \in Handler, ReceiverTask(h)
      PROVE  Promised(id)
  <2>1. minedClaim(h)
    BY <1>1, <1>3
          DEF ReceiverTask, ReceiverCall, chain, acceptPayment, closeChannel,
              findChannel, accept, reply, refuse, lookUpClaim, recordClaim
  <2>2. Chain!Redeem(ChannelOf(h), seen[h]) /\ ChannelOf(h) = id
    BY <1>1, <2>1 DEF minedClaim, Chain!Redeem, Chain!Divide, chain
  <2> DEFINE promise == [signer |-> parties[id].sender, id |-> id, amount |-> seen[h]]
  <2>3. promise \in promised /\ promise.id = id
    BY <2>2 DEF Chain!Redeem
  <2> QED BY <2>3 DEF Promised
<1>4. ~ Expire
  BY DEF Expire, Chain!Expire
<1> QED BY <1>1, <1>2, <1>3, <1>4, SenderTasks, ReceiverTasks
        DEF Next, senderCrash, receiverCrash, vars, chain

\* The channel of a handler is fixed.
LEMMA ChannelOfStays ==
  ASSUME Types, [Next]_vars, NEW h \in Handler, handler[h] # "none"
  PROVE  ChannelOf(h)' = ChannelOf(h)
<1>1. CASE SenderNext /\ UNCHANGED receiverVars
  BY <1>1, ExchangesKept DEF ChannelOf, receiverVars, Types, ReceiverTypes
<1>2. ASSUME NEW g \in Handler, ReceiverTask(g)
      PROVE  UNCHANGED payment /\ (h \in Claim => target'[h] = target[h])
  <2>1. UNCHANGED payment
    BY <1>2, HandlersAlone
  <2>2. ASSUME g \in Claim, closeChannel(g), h \in Claim
        PROVE  target'[h] = target[h]
    BY <2>2 DEF closeChannel, Types, ReceiverTypes, HandlerTypes
  <2> QED BY <1>2, <2>1, <2>2 DEF ReceiverTask, ReceiverCall, acceptPayment, findChannel, accept,
              reply, refuse, lookUpClaim, minedClaim, recordClaim
<1>3. receiverCrash \/ (Expire /\ UNCHANGED receiverVars) \/ UNCHANGED vars
        => UNCHANGED <<payment, target>>
  BY DEF receiverCrash, Expire, receiverVars, vars
<1> QED BY <1>1, <1>2, <1>3, ReceiverTasks DEF Next, ChannelOf, Handler

\* No channel opens under a call or a promise.
LEMMA NotOpened ==
  ASSUME Types, [Next]_vars, NEW id \in Id,
         Promised(id) \/ \E t \in Call : at[t] = id
  PROVE  /\ phase[id] # "open" => phase'[id] # "open"
         /\ phase[id] \in {"expired", "none"} => phase'[id] \in {"expired", "none"}
<1>1. ~ Opens(id)
  BY DEF Opens, Fresh, Promised
<1>2. phase'[id] # "none" => Stays(id)
  BY <1>1, ChannelStays
<1> QED BY <1>2 DEF Stays, Types, ChainTypes

LEMMA StepRemembered ==
  ASSUME Types, RowsFollow, [Next]_vars
  PROVE  Remembered'
<1> SUFFICES ASSUME NEW id \in Id, Knows(receiverRows', id)
             PROVE  phase'[id] # "none" \/ Knows(senderRows', id) \/ Promised(id)'
  BY DEF Remembered
<1>1. Promised(id) => Promised(id)'
  BY PromisesStay DEF Promised
<1>2. \/ UNCHANGED chain /\ phase[id] # "none"
      \/ phase[id] # "none" \/ Knows(senderRows, id) \/ Promised(id)
  BY ReceiverRowsFollow DEF Next, vars, receiverVars, tables, RowsFollow, Remembered
<1> QED BY <1>1, <1>2, SenderRowsGrow, ChannelGone DEF chain

LEMMA StepSettling ==
  ASSUME Types, RowsFollow, [Next]_vars, NEW t \in Call
  PROVE  SettlingFollows(t)'
<1> USE DEF Types, SenderTypes, TaskTypes
<1>1. ASSUME pc'[t] = pc[t], at'[t] = at[t]
      PROVE  SettlingFollows(t)'
  <2>1. pc[t] \in {"finishSettle", "announced", "refunded"} => at[t] \in Id
    BY DEF CallType, OnChannel, Over
  <2> QED BY <1>1, <2>1, NotOpened DEF SettlingFollows, RowsFollow
<1>2. ASSUME NEW o \in Call, o # t, SenderTask(o)
      PROVE  SettlingFollows(t)'
  BY <1>1, <1>2, CallsAlone
<1>3. ASSUME pc'[t] \notin {"finishSettle", "announced", "refunded"}
      PROVE  SettlingFollows(t)'
  BY <1>3 DEF SettlingFollows
<1>4. CASE SenderTask(t)
  <2>1. CASE lookUp(t)
    <3>1. pc'[t] = "failed" \/ (pc'[t] = Label(t) /\ Possible(Label(t), t) /\ at'[t] = at[t])
      BY <2>1 DEF lookUp, Throw, Finish, Goto
    <3>2. pc'[t] = "finishSettle" => phase'[at'[t]] = "expired"
      BY <2>1, <3>1 DEF Possible, maySettle, lookUp, chain
    <3> QED BY <3>1, <3>2 DEF SettlingFollows, Label
  <2>2. CASE mined(t)
    <3>1. pc'[t] = "failed" \/ (pc'[t] = After(pc[t]) /\ at'[t] = at[t])
      BY <2>2 DEF mined, Throw, Finish, Goto
    <3>2. pc[t] \in {"startSettle", "finishSettle"} => phase'[at[t]] # "open"
      <4>1. pc[t] \in {"startSettle", "finishSettle"} => at[t] \in Id
        BY DEF CallType, OnChannel, Over
      <4> QED BY <2>2, <4>1
              DEF mined, Transact, Chain!Announce, Chain!Refund, Chain!Divide, chain, Possible,
                  mayStartSettling, maySettle, ChainTypes, RowsFollow, SettlingFollows
    <3> QED BY <2>2, <3>1, <3>2 DEF mined, After, SettlingFollows
  <2>3. CASE buy(t) \/ loseConnection(t) \/ openChannel(t) \/ begin(t)
             \/ internalOpenChannel(t) \/ refusedOpen(t) \/ saveOpened(t)
    BY <1>3, <2>3 DEF buy, loseConnection, openChannel, begin, internalOpenChannel, refusedOpen,
                      saveOpened, Opened, Proceed, Throw, Finish, Goto
  <2>4. CASE requireOpenChannel(t) \/ findUsable(t) \/ readSpent(t) \/ nextPayment(t) \/ doPayment(t)
             \/ receiveAnswer(t) \/ spendChannel(t) \/ storePayment(t) \/ record(t)
    BY <1>3, <2>4 DEF requireOpenChannel, findUsable, readSpent, nextPayment, doPayment, receiveAnswer,
                      spendChannel, storePayment, record, Proceed, Throw, Finish, Goto
  <2> QED BY <1>4, <2>1, <2>2, <2>3, <2>4 DEF SenderTask, SenderCall
<1>5. CASE senderCrash
  BY <1>3, <1>5 DEF senderCrash, Over
<1> HIDE DEF Types, SenderTypes, TaskTypes
<1>6. CASE UNCHANGED senderVars
  BY <1>1, <1>6 DEF senderVars, task
<1> QED BY <1>2, <1>4, <1>5, <1>6, SenderTasks DEF Next, vars

\* A claim goes ahead with a payment, and a stored payment with a promise.
LEMMA StoredIsPromised ==
  ASSUME Types, Progress, NEW id, Amounts(id) # {}
  PROVE  Promised(id)
<1>1. PICK p \in receiverPayments : payment[p].id = id
  BY DEF Amounts
<1>2. p \in Purchase /\ Promise(p) \in promised
  BY <1>1 DEF Types, ReceiverTypes, Progress, ProgressOf
<1> QED BY <1>1, <1>2 DEF Promise, Promised

LEMMA StepClaim ==
  ASSUME Types, Progress, RowsFollow, [Next]_vars, NEW h \in Handler
  PROVE  ClaimFollows(h)'
<1> USE DEF Types, ReceiverTypes, HandlerTypes
<1> DEFINE id == ChannelOf(h)
<1>1. handler[h] # "none" => ChannelOf(h)' = id /\ id \in Id
  BY ChannelOfStays
<1>2. Promised(id) /\ ChannelOf(h)' = id => Promised(ChannelOf(h))'
  BY PromisesStay DEF Promised
<1>3. CASE handler'[h] = handler[h]
  BY <1>1, <1>2, <1>3, NotOpened DEF RowsFollow, ClaimFollows
<1>4. ASSUME handler'[h] \notin {"claim", "record"}
      PROVE  ClaimFollows(h)'
  BY <1>4 DEF ClaimFollows
<1>5. CASE ReceiverTask(h)
  <2>1. CASE handler'[h] = "claim"
    <3>1. lookUpClaim(h)
      BY <1>5, <2>1 DEF ReceiverTask, ReceiverCall, acceptPayment, closeChannel, findChannel,
                        accept, reply, refuse, minedClaim, recordClaim, Reject, End, Continue
    <3>2. handler[h] = "lookup" /\ Amounts(id) # {}
      BY <2>1, <3>1 DEF lookUpClaim, Serves, Reject, End, Continue
    <3> QED BY <1>1, <1>2, <2>1, <3>2, StoredIsPromised DEF ClaimFollows
  <2>2. CASE handler'[h] = "record"
    <3>1. minedClaim(h)
      BY <1>5, <2>2 DEF ReceiverTask, ReceiverCall, acceptPayment, closeChannel, findChannel,
                        accept, reply, refuse, lookUpClaim, recordClaim, Reject, End, Continue
    <3>2. handler[h] = "claim"
      BY <3>1 DEF minedClaim, Serves
    <3>3. phase'[id] # "open"
      BY <1>1, <3>1, <3>2 DEF minedClaim, Chain!Redeem, Chain!Divide, mayClaim, chain, ChainTypes
    <3> QED BY <1>1, <1>2, <2>2, <3>2, <3>3 DEF RowsFollow, ClaimFollows
  <2> QED BY <1>4, <2>1, <2>2
<1>6. CASE receiverCrash
  BY <1>4, <1>6 DEF receiverCrash, Ended
<1> HIDE DEF Types, ReceiverTypes, HandlerTypes
<1>7. CASE UNCHANGED receiverVars \/ UNCHANGED vars
  BY <1>3, <1>7 DEF receiverVars, vars
<1> QED BY <1>3, <1>5, <1>6, <1>7, HandlersAlone, ReceiverTasks DEF Next

LEMMA InitRowsFollow == Init => RowsFollow
BY DEF Init, NetworkInit, SenderInit, ReceiverInit, RowsFollow, Remembered, OpenRows, Knows,
       SettlingFollows, ClaimFollows

LEMMA StepRowsFollow ==
  Types /\ Types' /\ Progress /\ RowsFollow /\ [Next]_vars => RowsFollow'
<1> SUFFICES ASSUME Types, Types', Progress, RowsFollow, [Next]_vars
             PROVE  RowsFollow'
  OBVIOUS
<1> senderRows \in Seq(RowType) /\ receiverRows \in Seq(RowType) /\ Remembered
    /\ OpenRows(senderRows) /\ OpenRows(receiverRows)
  BY DEF Types, SenderTypes, DataTypes, ReceiverTypes, RowsFollow
<1>1. OpenRows(senderRows)'
  <2>1. CASE senderRows' = senderRows
    BY <2>1, OpenRowsStay DEF OpenRows
  <2>2. CASE OpenRows(senderRows') /\ UNCHANGED chain
    BY <2>2 DEF OpenRows, chain
  <2> QED BY <2>1, <2>2, SenderRowsFollow DEF Next, vars, senderVars
<1>2. OpenRows(receiverRows)'
  <2>1. CASE receiverRows' = receiverRows
    BY <2>1, OpenRowsStay DEF OpenRows
  <2>2. CASE OpenRows(receiverRows') /\ UNCHANGED chain
    BY <2>2 DEF OpenRows, chain
  <2> QED BY <2>1, <2>2, ReceiverRowsFollow DEF Next, vars, receiverVars, tables
<1> QED BY <1>1, <1>2, StepRemembered, StepSettling, StepClaim DEF RowsFollow

LEMMA RowsFollowInvariance == Spec => []RowsFollow
BY InitRowsFollow, StepRowsFollow, TypesInvariance, ProgressInvariance, PTL DEF Spec

LEMMA OpenListing ==
  ASSUME NEW rows \in Seq(RowType), OpenRows(rows), ChainTypes, NEW id \in Id, Knows(rows, id)
  PROVE  /\ phase[id] = "open" <=> id \in Listed(allOpen(rows))
         /\ phase[id] \in {"settling", "expired"} <=> id \in Listed(allSettling(rows))
<1>1. PICK i \in DOMAIN rows : rows[i].id = id
  BY DEF Knows
<1>2. \A j \in DOMAIN rows : /\ rows[j] \in RowType /\ rows[j] \in Range(rows)
                             /\ inflate(rows[j]).id = rows[j].id
                             /\ inflate(rows[j]).state = channelState(rows[j].id)
  <2>1. \A j \in DOMAIN rows : rows[j] \in RowType
    OBVIOUS
  <2> QED BY <2>1 DEF inflate, RowType, Range
<1>3. \A row \in Range(rows) : \E j \in DOMAIN rows : row = rows[j]
  BY DEF Range
<1>4. id \in Listed(allOpen(rows)) <=>
        \E j \in DOMAIN rows : rows[j].id = id /\ rows[j].state = Open /\ channelState(id) = Open
  BY <1>2, <1>3 DEF Listed, allOpen, filterByState, inflatePaymentChannels
<1>5. id \in Listed(allSettling(rows)) <=> channelState(id) = Settling
  BY <1>1, <1>2, <1>3 DEF Listed, allSettling, all, filterByState, inflatePaymentChannels
<1>6. /\ phase[id] = "open" <=> channelState(id) = Open
      /\ phase[id] \in {"settling", "expired"} <=> channelState(id) = Settling
  BY DEF ChainTypes, channelState, Open, Settling, Settled
<1> QED BY <1>1, <1>4, <1>5, <1>6 DEF OpenRows

(* The listings of open and settling channels tell the truth about every    *)
(* channel that has a row, on both sides: no path of the sender's and the   *)
(* receiver's calls, crashes included, stores that a channel is settling or *)
(* settled while the chain has it open, or gives a new channel an old row.  *)
THEOREM ListingsStayTrue == Spec => []ListingsAreTrue
<1>1. Types /\ RowsFollow => ListingsAreTrue
  BY OpenListing DEF Types, SenderTypes, DataTypes, ReceiverTypes, RowsFollow, ListingsAreTrue
<1> QED BY <1>1, TypesInvariance, RowsFollowInvariance, PTL

-----------------------------------------------------------------------------
(* Channels on record, while no process crashes and no receipt is late. *)

LEMMA StepRecorded ==
  ASSUME Faults \cap {"crash", "timeout"} = {},
         Types, ChannelsAreRecorded, [Next]_vars
  PROVE  ChannelsAreRecorded'
<1> SUFFICES ASSUME NEW id \in Id, phase'[id] # "none"
             PROVE  Knows(senderRows', id) \/ \E t \in Call : pc'[t] = "save" /\ at'[t] = id
  BY DEF ChannelsAreRecorded
<1>1. CASE Opens(id)
  <2>1. PICK t \in Purchase \cup Opening, new \in Id :
           /\ DidOpen(new, t)
           /\ Goto(t, "save") /\ at' = [at EXCEPT ![t] = new]
    BY <1>1 DEF Opens, internalOpenChannel
  <2>2. new = id
    BY <1>1, <2>1 DEF Opens, Fresh, DidOpen, Chain!Open, Types, ChainTypes
  <2> QED BY <2>1, <2>2 DEF Goto, Call, Types, SenderTypes, TaskTypes
<1>2. CASE Knows(senderRows, id)
  BY <1>2, SenderRowsGrow
<1>3. ASSUME NEW t \in Call, pc[t] = "save", at[t] = id
      PROVE  Knows(senderRows', id) \/ \E o \in Call : pc'[o] = "save" /\ at'[o] = id
  <2>1. ASSUME SenderTask(t)
        PROVE  Knows(senderRows', id)
    <3>1. t \in Purchase \cup Opening /\ saveOpened(t)
      BY <1>3, <2>1
         DEF SenderTask, SenderCall, buy, loseConnection, openChannel, begin, refusedOpen,
             internalOpenChannel, requireOpenChannel, findUsable, readSpent, nextPayment, doPayment,
             receiveAnswer, spendChannel, storePayment, lookUp, mined, record, Runs
    <3> DEFINE row == Row(id, DepositAmount(t), 0, Open)
    <3>2. row \in RowType /\ row.id = id
      BY <3>1, MadeRow, DepositAmountIsAmount DEF Row
    <3>3. Knows(senderRows, id) \/ senderRows' = save(senderRows, row)
      BY <1>3, <3>1 DEF saveOpened, CanSave
    <3>4. senderRows \in Seq(RowType)
      BY DEF Types, SenderTypes, DataTypes
    <3> HIDE DEF row
    <3>5. Knows(save(senderRows, row), id)
      BY <3>2, <3>4, SaveRow
    <3> QED BY <3>3, <3>5, SenderRowsGrow
  <2>2. ASSUME NEW o \in Call, o # t, SenderTask(o)
        PROVE  pc'[t] = pc[t] /\ at'[t] = at[t]
    BY <2>2, CallsAlone
  <2>3. ~ senderCrash
    BY DEF senderCrash
  <2> QED BY <1>3, <2>1, <2>2, <2>3, SenderTasks DEF Next, vars, senderVars, task
<1> QED BY <1>1, <1>2, <1>3, ChannelStays DEF ChannelsAreRecorded, Stays

(* As long as no process crashes and every receipt is seen, no channel of   *)
(* the sender is ever without a row, but for the moment between the         *)
(* transaction and the insert of internalOpenChannel.                       *)
THEOREM ChannelsStayRecorded ==
  ASSUME Faults \cap {"crash", "timeout"} = {}
  PROVE  Spec => []ChannelsAreRecorded
<1>1. Init => ChannelsAreRecorded
  BY DEF Init, NetworkInit, Chain!Init, ChannelsAreRecorded
<1> QED BY <1>1, StepRecorded, TypesInvariance, PTL DEF Spec

-----------------------------------------------------------------------------
(* ClaimIsFresh: the key of a channel lets one handler at a time past the   *)
(* lookup of its channel.                                                   *)

\* Handlers join a queue at its end, and leave it at its head.
LEMMA QueueKeepsFirst ==
  ASSUME Types, NEW h \in Handler, NEW g \in Handler, ReceiverTask(g), handler[h] \in Running,
         Head(receiverQueue[ChannelOf(h)]) = h, g # h
  PROVE  Head(receiverQueue'[ChannelOf(h)]) = h
<1> USE DEF Types, ReceiverTypes, HandlerTypes
<1> DEFINE id == ChannelOf(h)
<1>1. /\ id \in Id /\ receiverQueue[id] \in Seq(Handler) /\ receiverQueue[id] # <<>>
      /\ receiverQueue \in [Id -> Seq(Handler)]
  <2>1. handler[h] \notin Ended
    BY DEF Running, Ended
  <2>2. /\ id \in Id /\ receiverQueue[id] \in Seq(Handler)
        /\ \E i \in 1 .. Len(receiverQueue[id]) : receiverQueue[id][i] = h
    BY <2>1, ActiveHandler
  <2>3. receiverQueue[id] # <<>>
    BY <2>2
  <2> QED BY <2>2, <2>3
<1>2. UNCHANGED receiverQueue => Head(receiverQueue'[id]) = h
  OBVIOUS
<1>3. ASSUME NEW other \in Id, Await(g, other)
      PROVE  Head(receiverQueue'[id]) = h
  <2>1. CASE other = id
    <3>1. receiverQueue'[id] = Append(receiverQueue[id], g)
      BY <1>1, <1>3, <2>1 DEF Await
    <3>2. Head(Append(receiverQueue[id], g)) = Head(receiverQueue[id])
      BY <1>1
    <3> QED BY <3>1, <3>2
  <2> QED BY <1>3, <2>1 DEF Await
<1>4. ASSUME NEW label, Serves(g, label), NEW outcome, End(g, outcome)
      PROVE  Head(receiverQueue'[id]) = h
  BY <1>1, <1>4 DEF Serves, End
<1>5. ASSUME NEW label, Serves(g, label), Reject(g)
      PROVE  Head(receiverQueue'[id]) = h
  BY <1>4, <1>5 DEF Reject
<1>6. CASE acceptPayment(g) /\ g \in Purchase
  BY <1>3, <1>6 DEF acceptPayment, SenderTypes, PurchaseType, HasPayment, PaymentType
<1>7. CASE closeChannel(g)
  BY <1>3, <1>7 DEF closeChannel
<1> HIDE DEF Types, ReceiverTypes, HandlerTypes
<1>8. CASE findChannel(g) \/ accept(g) \/ refuse(g)
  BY <1>2, <1>5, <1>8 DEF findChannel, accept, refuse
<1>9. CASE reply(g) \/ recordClaim(g)
  BY <1>4, <1>5, <1>9 DEF reply, recordClaim
<1>10. CASE lookUpClaim(g) \/ minedClaim(g)
  BY <1>2, <1>5, <1>10 DEF lookUpClaim, minedClaim
<1> QED BY <1>6, <1>7, <1>8, <1>9, <1>10 DEF ReceiverTask, ReceiverCall

LEMMA StepRunsFirst ==
  ASSUME Types, [Next]_vars, NEW h \in Handler, RunsFirst(h)
  PROVE  RunsFirst(h)'
<1> SUFFICES ASSUME handler'[h] \in Running
             PROVE  Head(receiverQueue'[ChannelOf(h)']) = h
  BY DEF RunsFirst
<1> USE DEF Running
<1>1. CASE UNCHANGED receiverVars \/ UNCHANGED vars
  <2>1. handler' = handler /\ receiverQueue' = receiverQueue
    BY <1>1 DEF receiverVars, vars
  <2> QED BY <2>1, ChannelOfStays DEF RunsFirst
<1>2. ASSUME NEW g \in Handler, ReceiverTask(g), g # h
      PROVE  Head(receiverQueue'[ChannelOf(h)']) = h
  BY <1>2, HandlersAlone, QueueKeepsFirst, ChannelOfStays DEF RunsFirst
<1>3. CASE ReceiverTask(h)
  <2>1. /\ UNCHANGED receiverQueue /\ handler[h] # "none"
        /\ Head(receiverQueue[ChannelOf(h)]) = h
    <3>1. handler[h] # "none" /\ Head(receiverQueue[ChannelOf(h)]) = h
      BY <1>3 DEF ReceiverTask, ReceiverCall, acceptPayment, closeChannel, findChannel, accept,
                  reply, refuse, lookUpClaim, minedClaim, recordClaim, Serves, Continue, Types,
                  ReceiverTypes, HandlerTypes
    <3>2. ~ \E outcome \in Ended : End(h, outcome)
      BY DEF End, Continue, Types, ReceiverTypes, HandlerTypes, Ended
    <3>3. ~ Reject(h) /\ ~ End(h, "accepted") /\ ~ End(h, "claimed")
      BY <3>2 DEF Reject, Ended
    <3> QED BY <1>3, <3>1, <3>3
            DEF ReceiverTask, ReceiverCall, acceptPayment, closeChannel, findChannel, accept,
                reply, refuse, lookUpClaim, minedClaim, recordClaim, Continue, Types,
                ReceiverTypes, HandlerTypes
  <2> QED BY <2>1, ChannelOfStays
<1>4. CASE receiverCrash
  BY <1>4 DEF receiverCrash, Ended
<1> QED BY <1>1, <1>2, <1>3, <1>4, ReceiverTasks DEF Next

\* While a handler is about to claim, no payment is stored for its channel.
LEMMA AmountsWait ==
  ASSUME Types, [Next]_vars, NEW h \in Handler, handler[h] = "claim",
         \A g \in Handler : RunsFirst(g)
  PROVE  Amounts(ChannelOf(h))' = Amounts(ChannelOf(h))
<1> DEFINE id == ChannelOf(h)
<1> USE DEF Types, ReceiverTypes, HandlerTypes
<1>1. ChannelOf(h)' = id /\ Head(receiverQueue[id]) = h
  BY ChannelOfStays DEF RunsFirst, Running
<1>2. \A p \in receiverPayments : handler[p] # "none" /\ p \in Purchase
  OBVIOUS
<1>3. \A p \in receiverPayments : payment'[p] = payment[p]
  <2>1. SUFFICES ASSUME NEW p \in receiverPayments PROVE payment'[p] = payment[p]
    OBVIOUS
  <2>2. SenderNext => payment'[p] = payment[p]
    BY <1>2, ExchangesKept
  <2>3. UNCHANGED payment => payment'[p] = payment[p]
    OBVIOUS
  <2>4. ReceiverNext => UNCHANGED payment
    BY HandlersAlone, ReceiverTasks DEF receiverCrash
  <2> QED BY <2>2, <2>3, <2>4 DEF Next, Expire, vars
<1>4. \A p \in receiverPayments' \ receiverPayments : payment'[p].id # id
  <2>1. SUFFICES ASSUME NEW p \in receiverPayments' \ receiverPayments
                 PROVE  payment'[p].id # id
    OBVIOUS
  <2>2. PICK g \in Handler : ReceiverTask(g) /\ receiverPayments' # receiverPayments
    BY ReceiverTasks DEF Next, vars, receiverVars, tables, receiverCrash, Expire
  <2>3. g \in Purchase /\ accept(g) /\ p = g
    BY <2>2 DEF ReceiverTask, ReceiverCall, tables, acceptPayment, closeChannel, findChannel,
                accept, reply, refuse, lookUpClaim, minedClaim, recordClaim, storeAccepted
  <2>4. handler[g] = "validate" /\ g # h /\ UNCHANGED payment
    BY <2>3 DEF accept, Serves
  <2>5. Head(receiverQueue[payment[g].id]) = g
    BY <2>3, <2>4 DEF RunsFirst, Running, ChannelOf
  <2> QED BY <1>1, <2>3, <2>4, <2>5
<1>5. receiverPayments \subseteq receiverPayments'
  BY HandlersAlone, ReceiverTasks DEF Next, vars, receiverVars, tables, receiverCrash, Expire
<1> HIDE DEF Types, ReceiverTypes, HandlerTypes
<1>6. Amounts(id) = {payment[p].value : p \in {q \in receiverPayments : payment[q].id = id}}
  BY DEF Amounts
<1>7. Amounts(id)' = {payment'[p].value : p \in {q \in receiverPayments' : payment'[q].id = id}}
  BY <1>1 DEF Amounts
<1>8. {q \in receiverPayments' : payment'[q].id = id} = {q \in receiverPayments : payment[q].id = id}
  BY <1>3, <1>4, <1>5
<1> QED BY <1>1, <1>3, <1>6, <1>7, <1>8

LEMMA StepClaimsLast ==
  ASSUME Types, Types', [Next]_vars, NEW h \in Handler, ClaimsLast(h),
         \A g \in Handler : RunsFirst(g)
  PROVE  ClaimsLast(h)'
<1> SUFFICES ASSUME handler'[h] = "claim"
             PROVE  /\ Amounts(ChannelOf(h))' # {}
                    /\ seen'[h] = lastPayment(ChannelOf(h))'
  BY DEF ClaimsLast
<1>1. CASE handler[h] = "claim" /\ seen'[h] = seen[h]
  <2>1. Amounts(ChannelOf(h))' = Amounts(ChannelOf(h))
    BY <1>1, AmountsWait
  <2> QED BY <1>1, <2>1 DEF ClaimsLast, lastPayment
<1>2. CASE UNCHANGED receiverVars \/ UNCHANGED vars
  BY <1>1, <1>2 DEF receiverVars, vars
<1>3. ASSUME NEW g \in Handler, ReceiverTask(g), g # h
      PROVE  handler[h] = "claim" /\ seen'[h] = seen[h]
  BY <1>3, HandlersAlone
<1>4. CASE ReceiverTask(h)
  <2> USE DEF Types, ReceiverTypes, HandlerTypes
  <2>1. lookUpClaim(h) /\ ~ Reject(h)
    BY <1>4 DEF ReceiverTask, ReceiverCall, acceptPayment, closeChannel, findChannel,
                accept, reply, refuse, minedClaim, recordClaim, Reject, End, Continue
  <2>2. /\ Amounts(ChannelOf(h)) # {} /\ seen' = [seen EXCEPT ![h] = lastPayment(ChannelOf(h))]
        /\ UNCHANGED <<payment, target, receiverPayments>>
    BY <2>1 DEF lookUpClaim
  <2>3. seen'[h] = lastPayment(ChannelOf(h))
    BY <2>2
  <2> QED BY <2>2, <2>3 DEF lastPayment, Amounts, ChannelOf
<1>5. CASE receiverCrash
  BY <1>5 DEF receiverCrash, Ended
<1> QED BY <1>1, <1>2, <1>3, <1>4, <1>5, ReceiverTasks DEF Next

LEMMA InitClaimIsFresh == Init => ClaimIsFresh
BY DEF Init, ReceiverInit, ClaimIsFresh, RunsFirst, ClaimsLast, Running

LEMMA StepClaimIsFresh == Types /\ Types' /\ ClaimIsFresh /\ [Next]_vars => ClaimIsFresh'
BY StepRunsFirst, StepClaimsLast DEF ClaimIsFresh

LEMMA ClaimIsFreshInvariance == Spec => []ClaimIsFresh
BY InitClaimIsFresh, StepClaimIsFresh, TypesInvariance, PTL DEF Spec

\* Some number bounds every promise that was made so far.
PromisesBounded == \E n \in Nat : \A promise \in promised : promise.amount <= n

LEMMA StepBounded == Types /\ Types' /\ PromisesBounded /\ [Next]_vars => PromisesBounded'
<1> SUFFICES ASSUME Types, Types', PromisesBounded, [Next]_vars PROVE PromisesBounded'
  OBVIOUS
<1>1. PICK n \in Nat : \A promise \in promised : promise.amount <= n
  BY DEF PromisesBounded
<1>2. CASE promised' \subseteq promised
  BY <1>1, <1>2 DEF PromisesBounded
<1>3. CASE ~ (promised' \subseteq promised)
  <2>1. PICK p \in Purchase : doPayment(p)
    BY <1>3, PromiseMade
  <2>2. promised' = promised \cup {[signer |-> Sender, id |-> at[p], amount |-> payment[p].value]}
    BY <2>1 DEF doPayment, sign, Chain!Vow
  <2> DEFINE v == payment[p].value
             top == IF v <= n THEN n ELSE v
  <2>3. v \in Nat
    BY <2>1 DEF Types, SenderTypes, PurchaseType, HasPayment, PaymentType, doPayment, Runs
  <2>4. \A promise \in promised : promise.amount \in Nat
    BY DEF Types, ChainTypes
  <2> HIDE DEF v
  <2>5. \A promise \in promised' : promise.amount <= top
    BY <1>1, <2>2, <2>3, <2>4 DEF v
  <2> QED BY <2>3, <2>5 DEF PromisesBounded
<1> QED BY <1>2, <1>3

LEMMA LeastOf ==
  ASSUME NEW T \in SUBSET Nat, T # {}
  PROVE  \E x \in T : \A y \in T : x <= y
<1>1. PICK x \in T : \A y \in T : ~ (<<y, x>> \in OpToRel(<, Nat))
  BY NatLessThanWellFounded, WFMin
<1>2. \A y \in T : ~ (y < x)
  BY <1>1 DEF OpToRel
<1> QED BY <1>2

\* A bounded set of numbers has a largest.
LEMMA LargestOf ==
  ASSUME NEW S \in SUBSET Nat, S # {}, NEW bound \in Nat, \A s \in S : s <= bound
  PROVE  \E m \in S : \A s \in S : s <= m
<1> DEFINE T == {n \in Nat : \A s \in S : s <= n}
<1>1. T \in SUBSET Nat /\ T # {}
  OBVIOUS
<1> HIDE DEF T
<1>2. PICK m \in T : \A n \in T : m <= n
  BY <1>1, LeastOf
<1> USE DEF T
<1>3. m \in Nat /\ \A s \in S : s <= m
  OBVIOUS
<1>4. m \in S
  <2> SUFFICES ASSUME m \notin S PROVE FALSE
    OBVIOUS
  <2>1. \A s \in S : s \in Nat /\ s < m
    BY <1>3
  <2>2. PICK s \in S : s \in Nat /\ s < m
    BY <2>1
  <2>3. m - 1 \in Nat
    BY <1>3, <2>2
  <2>4. \A r \in S : r <= m - 1
    BY <1>3, <2>1
  <2>5. m - 1 \in T
    BY <2>3, <2>4
  <2>6. m <= m - 1
    BY <1>2, <2>5
  <2> QED BY <1>3, <2>6
<1> QED BY <1>3, <1>4

\* What "the largest" of a set of amounts is, and that it is unique.
Best(id, w) == w \in {0} \cup Amounts(id) /\ \A a \in Amounts(id) : a <= w

LEMMA AmountsAreNumbers ==
  ASSUME Types, NEW id
  PROVE  Amounts(id) \subseteq Nat
BY DEF Types, SenderTypes, ReceiverTypes, PurchaseType, HasPayment, PaymentType, Amounts

LEMMA BestIsWorth ==
  ASSUME Types, NEW id, NEW w, Best(id, w)
  PROVE  w = Worth(id)
<1> DEFINE S == {0} \cup Amounts(id)
<1>1. S \subseteq Nat /\ w \in S /\ \A a \in S : a <= w
  BY AmountsAreNumbers DEF Best
<1> HIDE DEF S
<1>2. Max(S) \in S /\ \A a \in S : Max(S) >= a
  BY <1>1 DEF Max
<1> DEFINE m == Max(S)
<1>3. m \in Nat /\ w \in Nat /\ m >= w /\ m <= w
  BY <1>1, <1>2
<1> HIDE DEF m
<1>4. m = w
  BY <1>3
<1> QED BY <1>4 DEF m, S, Worth

\* On these amounts the text order is that of the numbers.
TextAgrees(id) == \A a, b \in Amounts(id) : TextLeq(a, b) <=> a <= b

LEMMA LastIsBest ==
  ASSUME Types, Progress, PromisesBounded, NEW id, TextAgrees(id), Amounts(id) # {}
  PROVE  Best(id, lastPayment(id))
<1>1. PICK n \in Nat : \A promise \in promised : promise.amount <= n
  BY DEF PromisesBounded
<1>2. \A a \in Amounts(id) : a <= n
  <2> SUFFICES ASSUME NEW p \in receiverPayments PROVE payment[p].value <= n
    BY DEF Amounts
  <2>1. Promise(p) \in promised
    BY DEF Types, ReceiverTypes, Progress, ProgressOf
  <2> QED BY <1>1, <2>1 DEF Promise
<1>3. PICK m \in Amounts(id) : \A a \in Amounts(id) : a <= m
  BY <1>1, <1>2, AmountsAreNumbers, LargestOf
<1>4. \A a \in Amounts(id) : TextLeq(a, m)
  BY <1>3 DEF TextAgrees
<1>5. /\ lastPayment(id) \in Amounts(id)
      /\ \A a \in Amounts(id) : TextLeq(a, lastPayment(id))
  BY <1>3, <1>4 DEF lastPayment, TextMax
<1> QED BY <1>5 DEF Best, TextAgrees

LEMMA BoundedInvariance == Spec => []PromisesBounded
<1>1. Init => PromisesBounded
  BY DEF Init, NetworkInit, Chain!Init, PromisesBounded
<1> QED BY <1>1, StepBounded, TypesInvariance, PTL DEF Spec

(* A claim asks for what is the last payment of the channel when it is      *)
(* mined: between the query for it and the transaction no payment for the   *)
(* channel is accepted, because accepting and claiming take the same key.   *)
THEOREM ClaimsAreFresh ==
  Spec => [][\A h \in Handler : Redeems(h) => seen[h] = lastPayment(ChannelOf(h))]_vars
<1>1. ClaimIsFresh => \A h \in Handler : Redeems(h) => seen[h] = lastPayment(ChannelOf(h))
  BY DEF ClaimIsFresh, ClaimsLast, Redeems
<1> QED BY <1>1, ClaimIsFreshInvariance, PTL

(* As long as the text order of the amounts stored for a channel is that of *)
(* the numbers, a closing by the receiver pays the best promise it has.     *)
THEOREM ClaimsPayTheMost ==
  Spec /\ [](\A id \in Id : TextAgrees(id)) => ClaimsTheMost
<1> DEFINE InOrder == \A id \in Id : TextAgrees(id)
           Most == \A h \in Handler : Redeems(h) => seen[h] = Worth(ChannelOf(h))
<1>1. Types /\ Progress /\ PromisesBounded /\ ClaimIsFresh /\ InOrder => Most
  <2> SUFFICES ASSUME Types, Progress, PromisesBounded, ClaimIsFresh, InOrder,
                      NEW h \in Handler, Redeems(h)
               PROVE  seen[h] = Worth(ChannelOf(h))
    OBVIOUS
  <2>1. /\ ChannelOf(h) \in Id /\ Amounts(ChannelOf(h)) # {}
        /\ seen[h] = lastPayment(ChannelOf(h))
    BY DEF Redeems, ClaimIsFresh, ClaimsLast, Types, ReceiverTypes, HandlerTypes
  <2> QED BY <2>1, LastIsBest, BestIsWorth
<1> HIDE DEF InOrder, Most
<1>2. Spec /\ []InOrder => [][Most]_vars
  BY <1>1, TypesInvariance, ProgressInvariance, BoundedInvariance, ClaimIsFreshInvariance, PTL
<1> QED BY <1>2 DEF InOrder, Most, ClaimsTheMost

-----------------------------------------------------------------------------
(* Opening only when needed. *)

\* Whoever is opening a channel holds the default key.
IsOpening(t) == pc[t] = "save" \/ (t \in Purchase /\ pc[t] = "open")
OpenersHold == \A t \in Call : IsOpening(t) => Holds(t, Default)

\* What a step of a call does to the default key.
LEMMA DefaultKeepsFirst ==
  ASSUME Types, NEW t \in Call, NEW o \in Call, SenderTask(o), Holds(t, Default), o # t
  PROVE  senderQueue'[Default] # <<>> /\ Head(senderQueue'[Default]) = t
<1> USE DEF Types, SenderTypes, TaskTypes
<1>1. /\ Default \in Key /\ senderQueue[Default] \in Seq(Call) /\ senderQueue[Default] # <<>>
      /\ Head(senderQueue[Default]) = t
      /\ senderQueue \in [Key -> Seq(Call)]
  BY DEF Holds, Key
<1>2. UNCHANGED senderQueue => senderQueue'[Default] # <<>> /\ Head(senderQueue'[Default]) = t
  BY <1>1
<1>3. ASSUME NEW k \in Key, Enqueue(o, k)
      PROVE  senderQueue'[Default] # <<>> /\ Head(senderQueue'[Default]) = t
  <2>1. CASE k = Default
    <3>1. senderQueue'[Default] = Append(senderQueue[Default], o)
      BY <1>1, <1>3, <2>1 DEF Enqueue
    <3> DEFINE before == senderQueue[Default]
               after == Append(before, o)
    <3>2. before \in Seq(Call) /\ before # <<>>
      BY <1>1
    <3> HIDE DEF before
    <3>3. Len(after) = Len(before) + 1 /\ Len(before) \in Nat
      BY <3>2
    <3>4. after # <<>>
      <4>1. Len(after) > 0
        BY <3>3
      <4> HIDE DEF after
      <4>2. Len(<<>>) = 0
        OBVIOUS
      <4> QED BY <4>1, <4>2
    <3>5. Head(after) = Head(before)
      BY <3>2
    <3> QED BY <1>1, <3>1, <3>4, <3>5 DEF before
  <2> QED BY <1>1, <1>3, <2>1 DEF Enqueue
<1>4. ~Holds(o, Default)
  BY DEF Holds
<1>5. ASSUME Holds(o, KeyOf(o)), release(o)
      PROVE  senderQueue'[Default] # <<>> /\ Head(senderQueue'[Default]) = t
  <2>1. KeyOf(o) # Default
    BY <1>4, <1>5
  <2> QED BY <1>1, <1>5, <2>1 DEF release
<1>6. ASSUME NEW label, Runs(o, label), Throw(o)
      PROVE  senderQueue'[Default] # <<>> /\ Head(senderQueue'[Default]) = t
  BY <1>5, <1>6 DEF Throw, Runs
<1> HIDE DEF Types, SenderTypes, TaskTypes
<1>7. CASE o \in Purchase /\ (buy(o) \/ loseConnection(o))
  BY <1>1, <1>2, <1>3, <1>7 DEF buy, loseConnection
<1>8. CASE openChannel(o)
  BY <1>1, <1>3, <1>8 DEF openChannel
<1>9. CASE begin(o)
  BY <1>3, <1>9 DEF begin, Key
<1>10. CASE internalOpenChannel(o) \/ refusedOpen(o) \/ saveOpened(o)
            \/ requireOpenChannel(o) \/ findUsable(o)
  <2>1. UNCHANGED senderQueue
    BY <1>4, <1>10 DEF internalOpenChannel, refusedOpen, saveOpened, requireOpenChannel,
                       findUsable, Runs, KeyOf
  <2> QED BY <1>2, <2>1
<1>11. CASE readSpent(o) \/ nextPayment(o)
  BY <1>2, <1>6, <1>11 DEF readSpent, nextPayment
<1>12. CASE doPayment(o) \/ record(o)
  BY <1>5, <1>12 DEF doPayment, record, Runs
<1>13. CASE receiveAnswer(o) \/ spendChannel(o) \/ storePayment(o)
  BY <1>2, <1>13 DEF receiveAnswer, spendChannel, storePayment
<1>14. CASE lookUp(o) \/ mined(o)
  BY <1>2, <1>5, <1>6, <1>14 DEF lookUp, mined, Throw
<1> QED BY <1>7, <1>8, <1>9, <1>10, <1>11, <1>12, <1>13, <1>14 DEF SenderTask, SenderCall

LEMMA StepOpenersHold == Types /\ OpenersHold /\ [Next]_vars => OpenersHold'
<1> SUFFICES ASSUME Types, OpenersHold, [Next]_vars, NEW t \in Call, IsOpening(t)'
             PROVE  Holds(t, Default)'
  BY DEF OpenersHold
<1>1. CASE UNCHANGED senderVars
  <2>1. IsOpening(t)
    BY <1>1 DEF IsOpening, senderVars, task
  <2> QED BY <1>1, <2>1 DEF OpenersHold, Holds, senderVars, task
<1>2. ASSUME NEW o \in Call, o # t, SenderTask(o)
      PROVE  Holds(t, Default)'
  <2>1. IsOpening(t)
    BY <1>2, CallsAlone DEF IsOpening
  <2> QED BY <1>2, <2>1, DefaultKeepsFirst DEF OpenersHold, Holds
<1>3. CASE SenderTask(t)
  <2> USE DEF Types, SenderTypes, TaskTypes, IsOpening
  <2>1. CASE internalOpenChannel(t) \/ requireOpenChannel(t) \/ findUsable(t)
    BY <2>1 DEF internalOpenChannel, requireOpenChannel, findUsable, Runs, Holds, KeyOf, Goto,
                Throw, Finish, Proceed
  <2>2. CASE buy(t) \/ loseConnection(t) \/ begin(t)
             \/ refusedOpen(t) \/ saveOpened(t)
    BY <2>2 DEF buy, loseConnection, begin, refusedOpen, saveOpened, Opened, Proceed, Throw,
                Finish, Goto
  <2>3. CASE openChannel(t) /\ t \in Opening
    BY <2>3, CallAssumption DEF openChannel, Goto
  <2>4. CASE readSpent(t) \/ nextPayment(t) \/ doPayment(t)
             \/ receiveAnswer(t) \/ spendChannel(t) \/ storePayment(t) \/ record(t)
    BY <2>4 DEF readSpent, nextPayment, doPayment,
                receiveAnswer, spendChannel, storePayment, record, Throw, Finish, Goto
  <2>5. CASE lookUp(t) /\ t \in Deposit \cup Closing
    BY <2>5, CallAssumption DEF lookUp, Label, Throw, Finish, Goto
  <2>6. CASE mined(t) /\ t \in Deposit \cup Closing
    BY <2>6, CallAssumption DEF mined, After, Throw, Finish, Goto
  <2> HIDE DEF Types, SenderTypes, TaskTypes, IsOpening
  <2> QED BY <1>3, <2>1, <2>2, <2>3, <2>4, <2>5, <2>6 DEF SenderTask, SenderCall
<1>4. CASE senderCrash
  BY <1>4 DEF senderCrash, Over, IsOpening
<1> QED BY <1>1, <1>2, <1>3, <1>4, SenderTasks DEF Next, vars, senderVars

LEMMA OpenersHoldInvariance == Spec => []OpenersHold
<1>1. Init => OpenersHold
  BY DEF Init, SenderInit, OpenersHold, IsOpening
<1> QED BY <1>1, StepOpenersHold, TypesInvariance, PTL DEF Spec

\* Only the search for a channel leads a purchase to another place.
LEMMA FindsAlone ==
  ASSUME Types, [Next]_vars, NEW p \in Purchase, pc[p] \in {"find", "inflate"},
         pc'[p] \in {"inflate", "open"}, pc'[p] # pc[p]
  PROVE  \/ pc[p] = "find" /\ requireOpenChannel(p)
         \/ pc[p] = "inflate" /\ findUsable(p)
<1> USE DEF Types, SenderTypes, TaskTypes
<1>1. ~UNCHANGED senderVars /\ ~UNCHANGED vars
  BY DEF senderVars, task, vars
<1>2. ~senderCrash
  BY DEF senderCrash, Over, Call
<1>3. PICK t \in Call : SenderTask(t)
  BY <1>1, <1>2, SenderTasks DEF Next, vars, senderVars
<1>4. t = p
  BY <1>3, CallsAlone DEF Call
<1>5. p \notin Opening \cup Deposit \cup Closing
  BY CallAssumption
<1>6. ~ buy(p) /\ ~ loseConnection(p)
  BY DEF buy, loseConnection, Finish, Goto
<1>7. ~ internalOpenChannel(p) /\ ~ refusedOpen(p) /\ ~ saveOpened(p)
  BY DEF internalOpenChannel, refusedOpen, saveOpened, Runs
<1>8. /\ ~ readSpent(p) /\ ~ nextPayment(p) /\ ~ doPayment(p)
      /\ ~ receiveAnswer(p) /\ ~ spendChannel(p) /\ ~ storePayment(p)
  BY DEF readSpent, nextPayment, doPayment, receiveAnswer, spendChannel, storePayment, Runs
<1>9. requireOpenChannel(p) => pc[p] = "find"
  BY DEF requireOpenChannel, Runs
<1>10. findUsable(p) => pc[p] = "inflate"
  BY DEF findUsable, Runs
<1> HIDE DEF Types, SenderTypes, TaskTypes
<1> QED BY <1>3, <1>4, <1>5, <1>6, <1>7, <1>8, <1>9, <1>10 DEF SenderTask, SenderCall

\* On the amounts that findUsable compares, the text order is that of the
\* numbers.
RoomAgrees ==
  \A i \in DOMAIN senderRows, p \in Purchase :
    LET needed == senderRows[i].spent + Price[p]
    IN TextLeq(needed, senderRows[i].value) <=> needed <= senderRows[i].value

\* When the row of a channel shows its room, the query finds it or an earlier one.
LEMMA RoomIsFound ==
  ASSUME Types, RowsFollow, RoomAgrees, NEW p \in Purchase, requireOpenChannel(p),
         NEW i \in DOMAIN senderRows, HasRoom(senderRows[i], Price[p]),
         escrow[senderRows[i].id] <= senderRows[i].value
  PROVE  Picks(p, i)
<1> DEFINE found == Candidates(senderRows, Price[p])
<1>1. /\ DOMAIN senderRows = 1 .. Len(senderRows) /\ Len(senderRows) \in Nat
      /\ \A k \in DOMAIN senderRows : senderRows[k] \in RowType
      /\ Price[p] \in Nat /\ escrow \in [Id -> Nat]
  BY CallAssumption DEF Types, ChainTypes, SenderTypes, DataTypes
<1>2. i \in found
  <2>1. senderRows[i].spent + Price[p] <= senderRows[i].value
    BY <1>1 DEF HasRoom, RowType
  <2>2. senderRows[i].state = Open
    BY DEF HasRoom, RowsFollow, OpenRows
  <2> QED BY <2>1, <2>2 DEF Candidates, RoomAgrees
<1>3. found \subseteq 1 .. Len(senderRows)
  BY <1>1 DEF Candidates
<1> HIDE DEF found
<1>4. PICK j \in found : \A k \in found : j <= k
  BY <1>1, <1>2, <1>3, LeastOf
<1>5. senderRows[j].id \in firstCandidate(senderRows, Price[p])
  BY <1>4 DEF firstCandidate, found
<1>6. PICK id \in firstCandidate(senderRows, Price[p]) :
        Goto(p, "inflate") /\ at' = [at EXCEPT ![p] = id]
  BY <1>5 DEF requireOpenChannel
<1>7. PICK k \in found : senderRows[k].id = id /\ \A l \in found : k <= l
  BY <1>6 DEF firstCandidate, found
<1>8. k \in 1 .. i
  BY <1>1, <1>2, <1>3, <1>7
<1>9. pc'[p] = "inflate" /\ at'[p] = id
  BY <1>6 DEF Goto, Types, SenderTypes, TaskTypes, Call
<1> QED BY <1>7, <1>8, <1>9 DEF Picks

(* As long as the text order of the amounts that are compared is that of    *)
(* the numbers, a purchase sets out to open a channel only when nobody else *)
(* is opening one, and no recorded channel has room for it as the query     *)
(* runs, but for those with a deposit that is not in the row yet, or when   *)
(* the channel that the query has picked is no longer open.                 *)
THEOREM OpeningsAreNeeded ==
  Spec /\ []RoomAgrees => OpensOnlyWhenNeeded
<1> DEFINE Needed == \A p \in Purchase : NothingIsMissed(p) /\ DecidesAlone(p)
<1>1. Types /\ RowsFollow /\ OpenersHold /\ RoomAgrees /\ [Next]_vars => Needed
  <2> SUFFICES ASSUME Types, RowsFollow, OpenersHold, RoomAgrees, [Next]_vars,
                      NEW p \in Purchase
               PROVE  NothingIsMissed(p) /\ DecidesAlone(p)
    OBVIOUS
  <2>1. NothingIsMissed(p)
    <3> SUFFICES ASSUME pc[p] = "find", pc'[p] \in {"inflate", "open"},
                        NEW i \in DOMAIN senderRows, HasRoom(senderRows[i], Price[p]),
                        ~(senderRows[i].value < escrow[senderRows[i].id])
                 PROVE  Picks(p, i)
      BY DEF NothingIsMissed
    <3>1. requireOpenChannel(p)
      BY FindsAlone
    <3>2. senderRows[i] \in RowType /\ escrow \in [Id -> Nat]
      BY DEF Types, ChainTypes, SenderTypes, DataTypes
    <3>3. escrow[senderRows[i].id] <= senderRows[i].value
      BY <3>2 DEF RowType
    <3> QED BY <3>1, <3>3, RoomIsFound
  <2>2. DecidesAlone(p)
    <3> SUFFICES ASSUME pc[p] \in {"find", "inflate"}, pc'[p] = "open"
                 PROVE  /\ \A t \in Call : ~IsOpening(t)
                        /\ pc[p] = "inflate" => phase[at[p]] # "open"
      BY DEF DecidesAlone, IsOpening
    <3>1. \/ pc[p] = "find" /\ requireOpenChannel(p)
          \/ pc[p] = "inflate" /\ findUsable(p)
      BY FindsAlone
    <3>2. p \in Call /\ Holds(p, Default)
      BY <3>1 DEF requireOpenChannel, findUsable, Runs, KeyOf, Call
    <3>3. ASSUME NEW t \in Call, IsOpening(t)
          PROVE  FALSE
      BY <3>2, <3>3 DEF OpenersHold, IsOpening, Holds
    <3>4. ASSUME pc[p] = "inflate"
          PROVE  phase[at[p]] # "open"
      <4>1. findUsable(p)
        BY <3>1, <3>4
      <4>2. ~Proceed(p, at[p])
        BY <3>2 DEF Proceed, Goto, Types, SenderTypes, TaskTypes
      <4> QED BY <4>1, <4>2 DEF findUsable, channelState
    <3> QED BY <3>3, <3>4
  <2> QED BY <2>1, <2>2
<1> HIDE DEF Needed
<1>2. Spec /\ []RoomAgrees => [][Needed]_vars
  BY <1>1, TypesInvariance, RowsFollowInvariance, OpenersHoldInvariance, PTL DEF Spec
<1> QED BY <1>2 DEF Needed, OpensOnlyWhenNeeded

-----------------------------------------------------------------------------
(* Books: one purchase at a time.                                          *)

\* The receiver has answered p with a token, the sender's row does not count
\* it yet.
Uncounted(p) == pc[p] \in {"sent", "spend"} /\ handler[p] = "accepted"

\* While p pays, the row of its channel is as p has read it; without crashes
\* and lost connections, the exchange is answered once the handler has ended.
SerialOf(p) ==
  /\ pc[p] \in {"check", "sign", "sent", "spend"} =>
       \A i \in DOMAIN senderRows : senderRows[i].id = at[p] => senderRows[i].spent = spent[p]
  /\ wire[p] # "lost"
  /\ wire[p] = "request" => pc[p] = "sent"
  /\ handler[p] \notin Ended => wire[p] = "request"
  /\ handler[p] = "accepted" <=> wire[p] = "token"

Counts(id, amount) ==
  \E i \in DOMAIN senderRows : senderRows[i].id = id /\ senderRows[i].spent = amount

Accepted == {p \in Purchase : handler[p] = "accepted"}
AcceptedOn(id) == {p \in Accepted : payment[p].id = id}

BookOf(id, amount) ==
  /\ (\A p \in Purchase : Uncounted(p) => payment[p].id # id) =>
        Sum(Price, AcceptedOn(id)) = amount
  /\ \A p \in Purchase : Uncounted(p) /\ payment[p].id = id =>
        Sum(Price, AcceptedOn(id)) = payment[p].value

OneInFlight == \A p, q \in InFlight : p = q
AcceptedIsKnown == \A p \in Accepted : Knows(senderRows, payment[p].id)

Books == /\ OneInFlight
         /\ IsFiniteSet(Accepted)
         /\ AcceptedIsKnown
         /\ \A p \in Purchase : SerialOf(p)
         /\ \A id \in Id, amount \in Nat : Counts(id, amount) => BookOf(id, amount)

LEMMA EarnedIsSum == ASSUME NEW id PROVE Earned(id) = Sum(Price, AcceptedOn(id))
<1>1. {p \in Purchase : handler[p] = "accepted" /\ payment[p].id = id} = AcceptedOn(id)
  BY DEF AcceptedOn, Accepted
<1> QED BY <1>1 DEF Earned, Sum

\* What the sender's steps, but for spendChannel, do to the sums of its rows.
KeepsSpent ==
  /\ DOMAIN senderRows \subseteq DOMAIN senderRows'
  /\ \A i \in DOMAIN senderRows : /\ senderRows'[i].id = senderRows[i].id
                                  /\ senderRows'[i].spent = senderRows[i].spent
  /\ \A i \in DOMAIN senderRows' \ DOMAIN senderRows :
       /\ senderRows'[i].id \in Id /\ ~ Knows(senderRows, senderRows'[i].id)
       /\ senderRows'[i].spent = 0

LEMMA RowsKeepSpent ==
  ASSUME Types, NEW t \in Call, SenderTask(t), ~ (t \in Purchase /\ spendChannel(t))
  PROVE  KeepsSpent
<1> USE DEF Types
<1> senderRows \in Seq(RowType)
  BY DEF SenderTypes, DataTypes
<1>1. senderRows' = senderRows => KeepsSpent
  BY DEF KeepsSpent
<1>2. ASSUME NEW row \in RowType, row.spent = 0, ~ Knows(senderRows, row.id),
             senderRows' = save(senderRows, row)
      PROVE  KeepsSpent
  <2> DEFINE new == save(senderRows, row)
  <2>1. /\ DOMAIN new = DOMAIN senderRows \cup {Len(senderRows) + 1}
        /\ \A i \in DOMAIN senderRows : new[i] = senderRows[i]
        /\ new[Len(senderRows) + 1] = row
    BY SaveRow
  <2>2. senderRows' = new
    BY <1>2
  <2> HIDE DEF new
  <2> QED BY <1>2, <2>1, <2>2 DEF KeepsSpent, RowType
<1>3. ASSUME t \in Purchase \cup Opening, saveOpened(t), senderRows' # senderRows
      PROVE  KeepsSpent
  <2> DEFINE row == Row(at[t], DepositAmount(t), 0, Open)
  <2>1. at[t] \in Id
    BY <1>3 DEF saveOpened, Runs, SenderTypes, CallType, OnChannel, Over, Call
  <2>2. row \in RowType /\ row.spent = 0 /\ row.id = at[t]
    BY <1>3, <2>1, MadeRow, DepositAmountIsAmount DEF Row
  <2>3. senderRows' = save(senderRows, row) /\ ~ Knows(senderRows, at[t])
    BY <1>3 DEF saveOpened, CanSave
  <2> HIDE DEF row
  <2> QED BY <1>2, <2>2, <2>3
<1>4. ASSUME t \in Deposit \cup Closing, lookUp(t), senderRows' # senderRows
      PROVE  KeepsSpent
  <2> DEFINE row == Row(at[t], escrow[at[t]], 0, channelState(at[t]))
  <2>1. at[t] \in Id /\ escrow[at[t]] \in Nat
    BY <1>4 DEF lookUp, Runs, SenderTypes, ChainTypes, CallType, OnChannel, Over, Call
  <2>2. row \in RowType /\ row.spent = 0 /\ row.id = at[t]
    BY <2>1, MadeRow DEF Row, channelState
  <2>3. senderRows' = save(senderRows, row) /\ ~ Knows(senderRows, at[t])
    BY <1>4 DEF lookUp, Recovered
  <2> HIDE DEF row
  <2> QED BY <1>2, <2>2, <2>3
<1>5. ASSUME record(t)
      PROVE  KeepsSpent
  <2>1. \A i \in DOMAIN senderRows : senderRows[i] \in RowType
    OBVIOUS
  <2>2. \/ senderRows' = updateValue(senderRows, at[t], escrow[at[t]] + Extra[t])
        \/ \E state : senderRows' = updateState(senderRows, at[t], state)
    BY <1>5 DEF record, Update
  <2> QED BY <2>1, <2>2 DEF KeepsSpent, updateValue, updateState, UpdateRow, RowType
<1> QED BY <1>1, <1>3, <1>4, <1>5
        DEF SenderTask, SenderCall, buy, loseConnection, openChannel, begin, senderCrash,
            refusedOpen, internalOpenChannel, saveOpened, requireOpenChannel, findUsable, readSpent,
            nextPayment, doPayment, receiveAnswer, spendChannel, storePayment, lookUp, mined, record

\* An exchange that has begun keeps its payment, whoever moves.
LEMMA BegunPaymentsStay ==
  ASSUME Types, [Next]_vars, NEW p \in Purchase, wire[p] # "idle"
  PROVE  payment'[p] = payment[p]
<1>1. SenderNext => payment'[p] = payment[p]
  BY ExchangesKept
<1>2. UNCHANGED payment => payment'[p] = payment[p]
  OBVIOUS
<1> QED BY <1>1, <1>2, HandlersAlone, ReceiverTasks DEF Next, receiverCrash, Expire, vars

\* The payment of a purchase that the receiver has stored is fixed.
LEMMA StoredPaymentsStay ==
  ASSUME Types, [Next]_vars, NEW p \in receiverPayments
  PROVE  payment'[p] = payment[p]
BY BegunPaymentsStay DEF Types, ReceiverTypes

\* Only reply accepts a payment, and what is accepted remains so.
LEMMA OnlyReplyAccepts ==
  ASSUME Types, [Next]_vars
  PROVE  \/ Accepted' = Accepted
         \/ \E p \in Purchase : reply(p) /\ UNCHANGED senderVars
<1> USE DEF Accepted
<1>1. CASE UNCHANGED handler
  BY <1>1
<1>2. CASE receiverCrash
  <2>1. \A p \in Purchase : handler'[p] = "accepted" <=> handler[p] = "accepted"
    BY <1>2 DEF receiverCrash, Handler, Ended
  <2> QED BY <2>1
<1>3. ASSUME NEW h \in Handler, ReceiverTask(h), ~ (h \in Purchase /\ reply(h))
      PROVE  Accepted' = Accepted
  <2> USE DEF Types, ReceiverTypes, HandlerTypes
  <2>1. ASSUME Reject(h)
        PROVE  handler'[h] # "accepted"
    BY <2>1 DEF Reject, End, Continue
  <2>2. handler[h] # "accepted" /\ handler'[h] # "accepted"
    BY <1>3, <2>1
       DEF ReceiverTask, ReceiverCall, acceptPayment, closeChannel, findChannel, accept, refuse,
           lookUpClaim, minedClaim, recordClaim, Serves, Continue, End
  <2>3. \A p \in Purchase : handler'[p] = "accepted" <=> handler[p] = "accepted"
    BY <1>3, <2>2, HandlersAlone DEF Handler
  <2> QED BY <2>3
<1> QED BY <1>1, <1>2, <1>3, ReceiverTasks DEF Next, vars, receiverVars

LEMMA AcceptedKept ==
  ASSUME Types, [Next]_vars, Accepted' = Accepted, NEW id
  PROVE  AcceptedOn(id)' = AcceptedOn(id)
<1>1. \A p \in Accepted : payment'[p] = payment[p]
  BY BegunPaymentsStay DEF Accepted, Types, ReceiverTypes
<1> QED BY <1>1 DEF AcceptedOn

\* What reply does for the one purchase in flight.
LEMMA Replied ==
  ASSUME Faults \subseteq {"timeout", "refused"}, Types, Progress, Books,
         NEW p \in Purchase, reply(p), UNCHANGED senderVars
  PROVE  /\ pc[p] = "sent" /\ p \in InFlight /\ p \notin Accepted
         /\ handler[p] = "spend" /\ handler'[p] = "accepted"
         /\ wire[p] = "request" /\ wire'[p] = "token"
         /\ Accepted' = Accepted \cup {p}
         /\ payment[p].id = at[p] /\ payment[p].value = spent[p] + Price[p]
         /\ payment[p].id \in Id /\ Knows(senderRows, payment[p].id)
         /\ UNCHANGED <<payment, pc, at, spent, senderRows, receiverPayments>>
<1>1. /\ handler[p] = "spend" /\ End(p, "accepted") /\ Answer(p, "token")
      /\ UNCHANGED <<payment, pc, at, spent, senderRows, receiverPayments>>
  BY DEF reply, Serves, senderVars, task
<1>2. /\ handler \in [Handler -> HandlerPlace] /\ p \in Handler /\ p \in Call
      /\ wire \in [Purchase -> {"idle", "request", "token", "error", "lost"}]
  BY DEF Types, ReceiverTypes, HandlerTypes, SenderTypes, DataTypes, Handler, Call
<1>3. wire[p] = "request" /\ pc[p] = "sent"
  BY <1>1 DEF Books, SerialOf, Ended
<1>4. /\ handler' = [handler EXCEPT ![p] = "accepted"]
      /\ wire'[p] = "token"
  BY <1>1, <1>2, <1>3 DEF End, Continue, Answer
<1>5. payment[p].id = at[p] /\ payment[p].value = spent[p] + Price[p]
  BY <1>3 DEF Progress, ProgressOf
<1>6. at[p] \in Id /\ Knows(senderRows, at[p])
  BY <1>2, <1>3 DEF Types, SenderTypes, CallType, HasRow, OnChannel, Over
<1>7. Accepted' = Accepted \cup {p}
  BY <1>2, <1>4 DEF Accepted, Handler
<1>8. p \in InFlight /\ p \notin Accepted
  BY <1>1, <1>3 DEF InFlight, Over, Accepted
<1> QED BY <1>1, <1>2, <1>3, <1>4, <1>5, <1>6, <1>7, <1>8

LEMMA StepOneInFlight ==
  ASSUME MaxInFlight = 1, Types, OneInFlight, [Next]_vars
  PROVE  OneInFlight'
<1> USE DEF Types, SenderTypes, TaskTypes
<1>1. ASSUME InFlight' \subseteq InFlight
      PROVE  OneInFlight'
  BY <1>1 DEF OneInFlight
<1>2. ASSUME NEW t \in Call, SenderTask(t), t \notin InFlight, t \in InFlight'
      PROVE  t \in Purchase /\ buy(t)
  <2>1. t \in Purchase /\ pc[t] \in Over /\ pc'[t] \notin Over
    BY <1>2 DEF InFlight
  <2>2. t \notin Opening \cup Deposit \cup Closing
    BY <2>1, CallAssumption
  <2>3. ~ (loseConnection(t) \/ internalOpenChannel(t) \/ refusedOpen(t) \/ saveOpened(t))
    BY <2>1 DEF loseConnection, internalOpenChannel, refusedOpen, saveOpened, Runs, Over
  <2>4. ~ (requireOpenChannel(t) \/ findUsable(t) \/ readSpent(t) \/ nextPayment(t) \/ doPayment(t)
           \/ receiveAnswer(t) \/ spendChannel(t) \/ storePayment(t))
    BY <2>1 DEF requireOpenChannel, findUsable, readSpent, nextPayment, doPayment, receiveAnswer,
                spendChannel, storePayment, Runs, Over
  <2> QED BY <1>2, <2>1, <2>2, <2>3, <2>4 DEF SenderTask, SenderCall
<1>3. ASSUME NEW t \in Call, SenderTask(t)
      PROVE  OneInFlight'
  <2>1. InFlight' \subseteq InFlight \cup {t}
    BY <1>3, CallsAlone DEF InFlight, Call
  <2>2. CASE t \notin InFlight /\ t \in InFlight'
    <3>1. Cardinality(InFlight) < 1
      BY <1>2, <1>3, <2>2 DEF buy
    <3>2. ASSUME NEW p \in InFlight
          PROVE  FALSE
      <4>1. InFlight = {p}
        BY DEF OneInFlight
      <4>2. Cardinality({p}) = 1
        BY FS_Singleton
      <4> HIDE DEF InFlight
      <4> QED BY <3>1, <4>1, <4>2
    <3>3. InFlight = {}
      BY <3>2
    <3> QED BY <2>1, <3>3 DEF OneInFlight
  <2> QED BY <1>1, <2>1, <2>2
<1>4. CASE senderCrash
  BY <1>1, <1>4 DEF senderCrash, InFlight, Over, Call
<1>5. CASE UNCHANGED senderVars
  BY <1>1, <1>5 DEF senderVars, task, InFlight
<1> QED BY <1>3, <1>4, <1>5, SenderTasks DEF Next, vars

LEMMA StepAccepted ==
  ASSUME Faults \subseteq {"timeout", "refused"}, Types, Progress, Books, [Next]_vars
  PROVE  IsFiniteSet(Accepted') /\ AcceptedIsKnown'
<1>1. IsFiniteSet(Accepted')
  BY OnlyReplyAccepts, Replied, FS_AddElement DEF Books
<1>2. ASSUME NEW p \in Accepted'
      PROVE  Knows(senderRows', payment'[p].id)
  <2>1. CASE p \in Accepted
    <3>1. payment'[p] = payment[p] /\ Knows(senderRows, payment[p].id)
      BY <2>1, BegunPaymentsStay DEF Books, AcceptedIsKnown, Accepted, Types, ReceiverTypes
    <3> QED BY <3>1, SenderRowsGrow
  <2>2. CASE p \notin Accepted
    <3>1. PICK q \in Purchase : reply(q) /\ UNCHANGED senderVars
      BY <1>2, <2>2, OnlyReplyAccepts
    <3>2. p = q /\ Knows(senderRows, payment[p].id) /\ UNCHANGED <<payment, senderRows>>
      BY <1>2, <2>2, <3>1, Replied
    <3> QED BY <3>2
  <2> QED BY <2>1, <2>2
<1> QED BY <1>1, <1>2 DEF AcceptedIsKnown

\* A channel without a payment that is only half recorded counts what was paid.
LEMMA RowIsTotal ==
  ASSUME Types, Books, \A q \in Purchase : ~ Uncounted(q), NEW i \in DOMAIN senderRows
  PROVE  Sum(Price, AcceptedOn(senderRows[i].id)) = senderRows[i].spent
<1>1. senderRows[i] \in RowType
  BY DEF Types, SenderTypes, DataTypes
<1> QED BY <1>1 DEF RowType, Books, BookOf, Counts

LEMMA NothingUncounted ==
  ASSUME OneInFlight, NEW p \in InFlight, ~ Uncounted(p)
  PROVE  \A q \in Purchase : ~ Uncounted(q)
BY DEF OneInFlight, InFlight, Uncounted, Over

\* No other call changes the sum that a purchase has read.
LEMMA OthersSerial ==
  ASSUME Types, Books, NEW p \in Purchase, NEW t \in Call \ {p}, SenderTask(t),
         UNCHANGED receiverVars
  PROVE  SerialOf(p)'
<1>1. /\ pc'[p] = pc[p] /\ at'[p] = at[p] /\ spent'[p] = spent[p] /\ wire'[p] = wire[p]
      /\ handler' = handler /\ p \in Call
  BY CallsAlone DEF receiverVars, Call
<1>2. ASSUME pc[p] \in {"check", "sign", "sent", "spend"}, NEW i \in DOMAIN senderRows',
             senderRows'[i].id = at[p]
      PROVE  senderRows'[i].spent = spent[p]
  <2>1. p \in InFlight /\ Knows(senderRows, at[p])
    BY <1>1, <1>2 DEF InFlight, Over, Types, SenderTypes, CallType, HasRow, OnChannel
  <2>2. ~ (t \in Purchase /\ spendChannel(t))
    BY <2>1 DEF spendChannel, InFlight, Over, Books, OneInFlight
  <2>3. KeepsSpent
    BY <2>2, RowsKeepSpent
  <2> QED BY <1>2, <2>1, <2>3 DEF KeepsSpent, Books, SerialOf
<1> QED BY <1>1, <1>2 DEF Books, SerialOf

LEMMA PurchaseSerial ==
  ASSUME Faults \subseteq {"timeout", "refused"}, Types, Progress, Books,
         NEW p \in Purchase, SenderTask(p), UNCHANGED receiverVars
  PROVE  SerialOf(p)'
<1> USE DEF receiverVars, tables
<1>1. /\ pc \in [Call -> Place] /\ spent \in [Call -> Nat] /\ at \in [Call -> Id \cup {NoId}]
      /\ wire \in [Purchase -> {"idle", "request", "token", "error", "lost"}] /\ p \in Call
      /\ wire[p] # "idle" => pc[p] \in {"sent", "spend", "store", "failed"}
      /\ handler[p] # "none" => wire[p] # "idle"
      /\ SerialOf(p)
  BY DEF Call, Types, SenderTypes, TaskTypes, DataTypes, PurchaseType, Books, ReceiverTypes
<1>2. p \notin Opening \cup Deposit \cup Closing
  BY CallAssumption
<1>3. ASSUME wire[p] = "idle", wire'[p] = "idle",
             pc'[p] \notin {"check", "sign", "sent", "spend"}
      PROVE  SerialOf(p)'
  BY <1>1, <1>3 DEF SerialOf, Ended
<1>4. CASE buy(p) \/ internalOpenChannel(p) \/ refusedOpen(p)
  <2>1. wire[p] = "idle" /\ wire'[p] = "idle" /\ pc'[p] \in {"find", "save", "failed"}
    BY <1>1, <1>4 DEF buy, internalOpenChannel, refusedOpen, Runs, Throw, Finish, Goto
  <2> QED BY <1>3, <2>1
<1>5. CASE saveOpened(p) \/ requireOpenChannel(p) \/ findUsable(p)
  <2>1. /\ wire[p] = "idle" /\ wire'[p] = "idle"
        /\ pc'[p] \in {"inflate", "open", "read", "failed", "done"}
    BY <1>1, <1>5 DEF saveOpened, requireOpenChannel, findUsable, Runs, Opened, Proceed, Throw,
                      Finish, Goto
  <2> QED BY <1>3, <2>1
<1>6. CASE readSpent(p)
  <2>1. /\ pc[p] = "read" /\ pc'[p] = "check" /\ wire[p] = "idle"
        /\ spent'[p] = RowOf(senderRows, at[p]).spent
        /\ UNCHANGED <<wire, senderRows, at>>
    BY <1>1, <1>6 DEF readSpent, Runs, Goto
  <2>2. p \in InFlight /\ ~ Uncounted(p) /\ senderRows \in Seq(RowType) /\ Knows(senderRows, at[p])
    BY <1>1, <2>1 DEF InFlight, Over, Uncounted, Types, SenderTypes, DataTypes, CallType, HasRow,
                      OnChannel
  <2>3. PICK j \in DOMAIN senderRows :
          RowOf(senderRows, at[p]) = senderRows[j] /\ senderRows[j].id = at[p]
    BY <2>2, RowFound
  <2>4. \A i \in DOMAIN senderRows : senderRows[i].id = at[p] =>
          senderRows[i].spent = senderRows[j].spent
    BY <2>2, <2>3, NothingUncounted, RowIsTotal DEF Books
  <2> QED BY <1>1, <2>1, <2>3, <2>4 DEF SerialOf, Ended
<1>7. CASE nextPayment(p)
  <2>1. /\ pc[p] = "check" /\ wire[p] = "idle" /\ UNCHANGED <<wire, senderRows>>
        /\ \/ pc'[p] = "failed"
           \/ pc'[p] = "sign" /\ UNCHANGED <<at, spent>>
    BY <1>1, <1>7 DEF nextPayment, Runs, Throw, Finish, Goto
  <2> QED BY <1>1, <2>1 DEF SerialOf, Ended
<1>8. CASE doPayment(p)
  <2>1. /\ pc[p] = "sign" /\ pc'[p] = "sent" /\ wire'[p] = "request" /\ wire[p] = "idle"
        /\ UNCHANGED <<at, spent, senderRows>>
    BY <1>1, <1>8 DEF doPayment, Runs, Goto
  <2> QED BY <1>1, <2>1 DEF SerialOf, Ended
<1>9. CASE receiveAnswer(p)
  <2>1. /\ pc[p] = "sent" /\ UNCHANGED <<wire, senderRows>>
        /\ \/ wire[p] = "token" /\ pc'[p] = "spend" /\ UNCHANGED <<at, spent>>
           \/ wire[p] = "error" /\ pc'[p] = "failed"
    BY <1>1, <1>9 DEF receiveAnswer, Finish, Goto
  <2> QED BY <1>1, <2>1 DEF SerialOf
<1>10. CASE spendChannel(p) \/ storePayment(p)
  <2>1. /\ pc[p] \in {"spend", "store"} /\ UNCHANGED wire /\ wire[p] = "token"
        /\ pc'[p] \in {"store", "failed"}
    BY <1>1, <1>10 DEF spendChannel, storePayment, Finish, Goto, Progress, ProgressOf
  <2> QED BY <1>1, <2>1 DEF SerialOf
<1>11. ~ loseConnection(p)
  BY DEF loseConnection
<1> QED BY <1>2, <1>4, <1>5, <1>6, <1>7, <1>8, <1>9, <1>10, <1>11 DEF SenderTask, SenderCall

LEMMA HandlerSerial ==
  ASSUME Faults \subseteq {"timeout", "refused"}, Types, Progress, Books,
         NEW p \in Purchase, NEW g \in Handler, ReceiverTask(g), UNCHANGED senderVars
  PROVE  SerialOf(p)'
<1> USE DEF senderVars, task
<1>1. /\ p \in Handler /\ handler \in [Handler -> HandlerPlace] /\ SerialOf(p)
      /\ wire \in [Purchase -> {"idle", "request", "token", "error", "lost"}]
  BY DEF Handler, Types, SenderTypes, DataTypes, ReceiverTypes, HandlerTypes, Books
<1>2. ASSUME g # p
      PROVE  SerialOf(p)'
  <2>1. handler'[p] = handler[p] /\ wire'[p] = wire[p]
    BY <1>1, <1>2, HandlersAlone
  <2> QED BY <1>1, <2>1 DEF SerialOf
<1>3. CASE ReceiverTask(p)
  <2>1. ASSUME handler[p] \notin Ended,
               \/ wire' = wire /\ handler'[p] \notin Ended
               \/ Answer(p, "error") /\ handler'[p] = "refused"
        PROVE  SerialOf(p)'
    BY <1>1, <2>1 DEF SerialOf, Answer, Ended
  <2>2. Reject(p) => Answer(p, "error") /\ handler'[p] = "refused"
    BY <1>1 DEF Reject, End, Continue
  <2>3. CASE acceptPayment(p)
    <3>1. /\ handler[p] = "none" /\ handler'[p] = "find" /\ wire[p] = "request" /\ UNCHANGED wire
      BY <1>1, <2>3 DEF acceptPayment, Continue, SerialOf
    <3> QED BY <1>1, <3>1 DEF SerialOf
  <2>4. CASE findChannel(p) \/ refuse(p) \/ accept(p)
    BY <1>1, <2>1, <2>2, <2>4 DEF findChannel, refuse, accept, Serves, Continue, Ended
  <2>5. CASE reply(p)
    <3>1. /\ handler'[p] = "accepted" /\ wire'[p] = "token"
      BY <2>5, Replied
    <3> QED BY <1>1, <3>1 DEF SerialOf, Ended
  <2>6. CASE lookUpClaim(p) \/ minedClaim(p) \/ recordClaim(p)
    BY <1>1, <2>1, <2>2, <2>6 DEF lookUpClaim, minedClaim, recordClaim, Serves, Continue, Ended
  <2>7. p \notin Claim
    BY CallAssumption
  <2> QED BY <1>3, <2>3, <2>4, <2>5, <2>6, <2>7 DEF ReceiverTask, ReceiverCall
<1> QED BY <1>2, <1>3

LEMMA StepSerial ==
  ASSUME Faults \subseteq {"timeout", "refused"},
         Types, Progress, Books, [Next]_vars, NEW p \in Purchase
  PROVE  SerialOf(p)'
<1>1. ~ senderCrash /\ ~ receiverCrash
  BY DEF senderCrash, receiverCrash
<1>2. CASE (Expire /\ UNCHANGED <<senderVars, receiverVars>>) \/ UNCHANGED vars
  BY <1>2 DEF Expire, vars, senderVars, receiverVars, task, tables, Books, SerialOf
<1> QED BY <1>1, <1>2, OthersSerial, PurchaseSerial, HandlerSerial, SenderTasks, ReceiverTasks
        DEF Next, Call

\* Steps that neither accept a payment nor count one.
LEMMA BooksStay ==
  ASSUME Types, Books, [Next]_vars, Accepted' = Accepted, KeepsSpent,
         \A p \in Purchase : Uncounted(p)' <=> Uncounted(p),
         NEW id \in Id, NEW amount \in Nat, Counts(id, amount)'
  PROVE  BookOf(id, amount)'
<1>1. AcceptedOn(id)' = AcceptedOn(id)
  BY AcceptedKept
<1>2. \A p \in Purchase : Uncounted(p) => payment'[p] = payment[p] /\ p \in Accepted
  BY BegunPaymentsStay DEF Uncounted, Accepted, Types, ReceiverTypes
<1>3. PICK i \in DOMAIN senderRows' : senderRows'[i].id = id /\ senderRows'[i].spent = amount
  BY DEF Counts
<1>4. BookOf(id, amount)
  <2>1. CASE i \in DOMAIN senderRows
    BY <1>3, <2>1 DEF KeepsSpent, Books, Counts
  <2>2. CASE i \notin DOMAIN senderRows
    <3>1. ~ Knows(senderRows, id) /\ amount = 0
      BY <1>3, <2>2 DEF KeepsSpent
    <3>2. AcceptedOn(id) = {}
      BY <3>1 DEF Books, AcceptedIsKnown, AcceptedOn
    <3>3. \A p \in Purchase : Uncounted(p) => payment[p].id # id
      BY <1>2, <3>2 DEF AcceptedOn
    <3>4. Sum(Price, AcceptedOn(id)) = amount
      BY <3>1, <3>2, SumOfNothing
    <3> QED BY <3>3, <3>4 DEF BookOf
  <2> QED BY <2>1, <2>2
<1> QED BY <1>1, <1>2, <1>4 DEF BookOf

\* spendChannel counts what the receiver has accepted.
LEMMA BooksSpend ==
  ASSUME Types, Progress, Books, [Next]_vars, NEW p \in Purchase, spendChannel(p),
         UNCHANGED receiverVars,
         NEW id \in Id, NEW amount \in Nat, Counts(id, amount)'
  PROVE  BookOf(id, amount)'
<1> USE DEF Types, SenderTypes, TaskTypes, DataTypes
<1>1. /\ pc[p] = "spend" /\ pc'[p] = "store" /\ wire[p] = "token"
      /\ UNCHANGED <<handler, payment>>
      /\ payment[p] \in PaymentType /\ senderRows \in Seq(RowType)
      /\ \A q \in Purchase \ {p} : pc'[q] = pc[q]
  BY DEF spendChannel, Goto, Progress, ProgressOf, receiverVars, PurchaseType, HasPayment, Call
<1> HIDE DEF Types, SenderTypes, TaskTypes, DataTypes
<1>2. payment[p].id = at[p] /\ Knows(senderRows, payment[p].id)
  BY <1>1 DEF Progress, ProgressOf, Types, SenderTypes, CallType, HasRow, OnChannel, Over, Call
<1>3. senderRows' = spend(senderRows, payment[p].id, payment[p].value)
  BY <1>2 DEF spendChannel, saveOrUpdate, fromPayment, Row
<1>4. Uncounted(p) /\ \A q \in Purchase : Uncounted(q) => q = p
  BY <1>1 DEF Books, SerialOf, OneInFlight, InFlight, Over, Uncounted
<1>5. \A q \in Purchase : ~ Uncounted(q)'
  BY <1>1, <1>4 DEF Uncounted
<1>6. AcceptedOn(id)' = AcceptedOn(id)
  BY <1>1 DEF AcceptedOn, Accepted
<1>7. PICK i \in DOMAIN senderRows' : senderRows'[i].id = id /\ senderRows'[i].spent = amount
  BY DEF Counts
<1>8. i \in DOMAIN senderRows /\ senderRows[i] \in RowType
  BY <1>1, <1>3 DEF spend, UpdateRow
<1>9. /\ senderRows[i].id = id
      /\ amount = IF id = payment[p].id THEN payment[p].value ELSE senderRows[i].spent
  BY <1>3, <1>7, <1>8 DEF spend, UpdateRow, RowType
<1>10. BookOf(id, senderRows[i].spent)
  BY <1>8, <1>9 DEF Books, Counts, RowType
<1>11. Sum(Price, AcceptedOn(id)) = amount
  BY <1>4, <1>9, <1>10 DEF BookOf
<1> QED BY <1>5, <1>6, <1>11 DEF BookOf

\* A token adds the price of its purchase to what was paid, which makes it
\* the value of the payment.
LEMMA TotalPaid ==
  ASSUME Faults \subseteq {"timeout", "refused"}, Types, Progress, Books,
         NEW p \in Purchase, reply(p), UNCHANGED senderVars, NEW id \in Id
  PROVE  /\ payment[p].id # id => AcceptedOn(id)' = AcceptedOn(id)
         /\ payment[p].id = id => Sum(Price, AcceptedOn(id))' = payment[p].value
<1>1. AcceptedOn(id)' = AcceptedOn(id) \cup (IF payment[p].id = id THEN {p} ELSE {})
  BY Replied DEF AcceptedOn
<1>2. ASSUME payment[p].id = id
      PROVE  Sum(Price, AcceptedOn(id))' = payment[p].value
  <2>1. PICK i \in DOMAIN senderRows : senderRows[i].id = id
    BY <1>2, Replied DEF Knows
  <2>2. senderRows[i].spent = spent[p]
    BY <1>2, <2>1, Replied DEF Books, SerialOf
  <2>3. ~ Uncounted(p)
    BY Replied DEF Uncounted
  <2>4. Sum(Price, AcceptedOn(id)) = spent[p]
    BY <2>1, <2>2, <2>3, Replied, NothingUncounted, RowIsTotal DEF Books
  <2>5. IsFiniteSet(AcceptedOn(id)) /\ p \notin AcceptedOn(id)
    BY Replied, FS_Subset DEF Books, AcceptedOn
  <2>6. \A q \in AcceptedOn(id) \cup {p} : Price[q] \in Int
    BY CallAssumption DEF AcceptedOn, Accepted
  <2>7. Sum(Price, AcceptedOn(id) \cup {p}) = Sum(Price, AcceptedOn(id)) + Price[p]
    BY <2>5, <2>6, SumWith
  <2>8. AcceptedOn(id)' = AcceptedOn(id) \cup {p}
    BY <1>1, <1>2
  <2> QED BY <2>4, <2>7, <2>8, Replied
<1> QED BY <1>1, <1>2

LEMMA BooksReply ==
  ASSUME Faults \subseteq {"timeout", "refused"}, Types, Progress, Books,
         NEW p \in Purchase, reply(p), UNCHANGED senderVars,
         NEW id \in Id, NEW amount \in Nat, Counts(id, amount)'
  PROVE  BookOf(id, amount)'
<1>1. /\ Uncounted(p)' /\ ~ Uncounted(p)
      /\ \A q \in Purchase : Uncounted(q)' => q = p
  BY Replied DEF Books, OneInFlight, InFlight, Uncounted, Over, Accepted
<1>2. CASE payment[p].id = id
  BY <1>1, <1>2, Replied, TotalPaid DEF BookOf
<1>3. CASE payment[p].id # id
  <2>1. PICK i \in DOMAIN senderRows : senderRows[i].id = id /\ senderRows[i].spent = amount
    BY Replied DEF Counts
  <2>2. Sum(Price, AcceptedOn(id)) = amount
    BY <1>1, <2>1, Replied, NothingUncounted, RowIsTotal DEF Books
  <2> QED BY <1>1, <1>3, <2>2, Replied, TotalPaid DEF BookOf
<1> QED BY <1>2, <1>3

LEMMA StepBookOf ==
  ASSUME Faults \subseteq {"timeout", "refused"}, Types, Progress, Books, [Next]_vars,
         NEW id \in Id, NEW amount \in Nat, Counts(id, amount)'
  PROVE  BookOf(id, amount)'
<1>1. UNCHANGED senderRows => KeepsSpent
  BY DEF KeepsSpent
<1>2. ASSUME UNCHANGED <<senderRows, pc>>, Accepted' = Accepted
      PROVE  BookOf(id, amount)'
  <2>1. \A p \in Purchase : Uncounted(p)' <=> Uncounted(p)
    BY <1>2 DEF Uncounted, Accepted
  <2> QED BY <1>1, <1>2, <2>1, BooksStay
<1>3. ASSUME NEW t \in Call, SenderTask(t), UNCHANGED receiverVars,
             ~ (t \in Purchase /\ spendChannel(t))
      PROVE  BookOf(id, amount)'
  <2>1. KeepsSpent /\ handler' = handler /\ Accepted' = Accepted
    BY <1>3, RowsKeepSpent DEF receiverVars, Accepted
  <2>2. ASSUME NEW p \in Purchase, p # t
        PROVE  Uncounted(p)' <=> Uncounted(p)
    BY <1>3, <2>1, <2>2, CallsAlone DEF Uncounted, Call
  <2>3. ASSUME t \in Accepted
        PROVE  pc'[t] \in {"sent", "spend"} <=> pc[t] \in {"sent", "spend"}
    <3>1. /\ t \in Purchase /\ t \notin Opening \cup Deposit \cup Closing
          /\ wire[t] = "token" /\ pc[t] \in {"sent", "spend", "store", "failed"}
      BY <2>3, CallAssumption DEF Accepted, Books, SerialOf, Types, SenderTypes, PurchaseType
    <3>2. loseConnection(t) => FALSE
      BY DEF loseConnection
    <3>3. receiveAnswer(t) \/ storePayment(t)
      BY <1>3, <3>1, <3>2
         DEF SenderTask, SenderCall, buy, refusedOpen, internalOpenChannel, saveOpened,
             requireOpenChannel, findUsable, readSpent, nextPayment, doPayment, Runs
    <3> QED BY <3>1, <3>3
            DEF receiveAnswer, storePayment, Goto, Finish, Types, SenderTypes, TaskTypes
  <2>4. \A p \in Purchase : Uncounted(p)' <=> Uncounted(p)
    BY <2>1, <2>2, <2>3 DEF Uncounted, Accepted
  <2> QED BY <2>1, <2>4, BooksStay
<1>4. ASSUME NEW h \in Handler, ReceiverTask(h), UNCHANGED senderVars
      PROVE  BookOf(id, amount)'
  <2>1. UNCHANGED <<senderRows, pc>>
    BY <1>4 DEF senderVars, task
  <2> QED BY <1>2, <2>1, OnlyReplyAccepts, BooksReply
<1>5. ~ senderCrash /\ ~ receiverCrash
  BY DEF senderCrash, receiverCrash
<1>6. CASE (Expire /\ UNCHANGED <<senderVars, receiverVars>>) \/ UNCHANGED vars
  BY <1>2, <1>6 DEF vars, senderVars, receiverVars, task, Accepted
<1> QED BY <1>3, <1>4, <1>5, <1>6, BooksSpend, SenderTasks, ReceiverTasks DEF Next

LEMMA InitBooks == Init => Books
<1> SUFFICES ASSUME Init PROVE Books
  OBVIOUS
<1>1. Accepted = {}
  BY DEF Init, ReceiverInit, Accepted, Handler
<1> QED BY <1>1, FS_EmptySet
        DEF Init, NetworkInit, SenderInit, ReceiverInit, Books, OneInFlight, InFlight,
            AcceptedIsKnown, SerialOf, Counts, Over, Call, Handler, Ended

LEMMA StepBooks ==
  ASSUME MaxInFlight = 1, Faults \subseteq {"timeout", "refused"},
         Types, Progress, Books, [Next]_vars
  PROVE  Books'
<1>1. OneInFlight' /\ IsFiniteSet(Accepted') /\ AcceptedIsKnown'
  BY StepOneInFlight, StepAccepted DEF Books
<1>2. \A p \in Purchase : SerialOf(p)'
  BY StepSerial
<1>3. \A id \in Id, amount \in Nat : Counts(id, amount)' => BookOf(id, amount)'
  BY StepBookOf
<1> QED BY <1>1, <1>2, <1>3 DEF Books

(* When purchases are made one at a time, while transactions may be refused *)
(* or time out but no process crashes and no answer is lost, then between   *)
(* purchases the sender counts as spent on each channel exactly the prices  *)
(* of what the receiver answered tokens for there, whatever openings,       *)
(* deposits, closings and claims run beside them, and whichever payments    *)
(* the receiver refused, some of them after it had stored them.             *)
THEOREM BooksStayEqual ==
  ASSUME MaxInFlight = 1, Faults \subseteq {"timeout", "refused"}
  PROVE  Spec => []BooksAgree
<1>1. Types /\ Books => BooksAgree
  <2> SUFFICES ASSUME Types, Books, InFlight = {}, NEW i \in DOMAIN senderRows
               PROVE  senderRows[i].spent = Earned(senderRows[i].id)
    BY DEF BooksAgree
  <2>1. \A p \in Purchase : ~ Uncounted(p)
    BY DEF InFlight, Uncounted, Over
  <2> QED BY <2>1, RowIsTotal, EarnedIsSum
<1> QED BY <1>1, InitBooks, StepBooks, TypesInvariance, ProgressInvariance, PTL DEF Spec

-----------------------------------------------------------------------------
(* Earnings: what was accepted, one purchase at a time.                    *)

\* Each payment asks for all that was paid before it too, so the last one
\* that was accepted is worth them all.
Earnings ==
  \A id \in Id : Sum(Price, AcceptedOn(id)) \in {0} \cup Amounts(id)

LEMMA WorthIsBest ==
  ASSUME Types, Progress, PromisesBounded, NEW id
  PROVE  Worth(id) \in Nat /\ Best(id, Worth(id))
<1>1. PICK n \in Nat : \A promise \in promised : promise.amount <= n
  BY DEF PromisesBounded
<1>2. \A a \in Amounts(id) : a <= n
  <2> SUFFICES ASSUME NEW p \in receiverPayments PROVE payment[p].value <= n
    BY DEF Amounts
  <2>1. Promise(p) \in promised
    BY DEF Types, ReceiverTypes, Progress, ProgressOf
  <2> QED BY <1>1, <2>1 DEF Promise
<1>3. Amounts(id) \subseteq Nat
  BY AmountsAreNumbers
<1>4. PICK w \in Nat : Best(id, w)
  <2>1. CASE Amounts(id) = {}
    BY <2>1 DEF Best
  <2>2. CASE Amounts(id) # {}
    BY <1>2, <1>3, <2>2, LargestOf DEF Best
  <2> QED BY <2>1, <2>2
<1> QED BY <1>4, BestIsWorth

LEMMA AmountsGrow ==
  ASSUME Types, [Next]_vars, NEW id
  PROVE  Amounts(id) \subseteq Amounts(id)'
<1>1. receiverPayments \subseteq receiverPayments'
  BY HandlersAlone, ReceiverTasks DEF Next, vars, receiverVars, tables, receiverCrash, Expire
<1> QED BY <1>1, StoredPaymentsStay DEF Amounts

LEMMA InitEarnings == Init => Earnings
<1> SUFFICES ASSUME Init PROVE Earnings
  OBVIOUS
<1>1. \A id \in Id : AcceptedOn(id) = {}
  BY DEF Init, ReceiverInit, AcceptedOn, Accepted, Handler
<1> QED BY <1>1, SumOfNothing DEF Earnings

LEMMA StepEarnings ==
  ASSUME Faults \subseteq {"timeout", "refused"},
         Types, Progress, Books, Earnings, [Next]_vars
  PROVE  Earnings'
<1> SUFFICES ASSUME NEW id \in Id
             PROVE  Sum(Price, AcceptedOn(id))' \in {0} \cup Amounts(id)'
  BY DEF Earnings
<1>1. CASE AcceptedOn(id)' = AcceptedOn(id)
  BY <1>1, AmountsGrow DEF Earnings
<1>2. ASSUME NEW p \in Purchase, reply(p), UNCHANGED senderVars, payment[p].id = id
      PROVE  Sum(Price, AcceptedOn(id))' \in Amounts(id)'
  <2>1. p \in receiverPayments /\ UNCHANGED <<payment, receiverPayments>>
    BY <1>2, Replied DEF Progress, ProgressOf
  <2> QED BY <1>2, <2>1, TotalPaid DEF Amounts
<1> QED BY <1>1, <1>2, OnlyReplyAccepts, AcceptedKept, TotalPaid

(* Under the same conditions, what the receiver gave tokens for on a        *)
(* channel is never more than what its best promise there redeems: no       *)
(* payment undercuts the ones accepted before it, and no token is answered  *)
(* without its payment being stored.                                        *)
THEOREM EarningsStayRedeemable ==
  ASSUME MaxInFlight = 1, Faults \subseteq {"timeout", "refused"}
  PROVE  Spec => []EarningsAreRedeemable
<1>1. Types /\ Progress /\ PromisesBounded /\ Earnings => EarningsAreRedeemable
  <2> SUFFICES ASSUME Types, Progress, PromisesBounded, Earnings, NEW id \in Id
               PROVE  Earned(id) <= Worth(id)
    BY DEF EarningsAreRedeemable
  <2>1. Worth(id) \in Nat /\ Best(id, Worth(id))
    BY WorthIsBest
  <2>2. Earned(id) \in {0} \cup Amounts(id)
    BY EarnedIsSum DEF Earnings
  <2> QED BY <2>1, <2>2 DEF Best
<1>2. Spec => [](Books /\ Earnings)
  <2>1. Types /\ Types' /\ Progress /\ Books /\ Earnings /\ [Next]_vars => (Books /\ Earnings)'
    BY StepBooks, StepEarnings
  <2> QED BY <2>1, InitBooks, InitEarnings, TypesInvariance, ProgressInvariance, PTL DEF Spec
<1> QED BY <1>1, <1>2, TypesInvariance, ProgressInvariance, BoundedInvariance, PTL

=============================================================================
