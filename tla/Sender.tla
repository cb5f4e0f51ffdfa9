-------------------------------- MODULE Sender --------------------------------
(***************************************************************************)
(* The paying process: IohTee.buy, deposit and close over ChannelManager   *)
(*   packages/iohtee/src/IohTee.ts, packages/iohtee/src/ChannelManager.ts  *)
(* One action per stretch of code between two awaits that another call,    *)
(* the chain or the network can be seen from.  A key of the mutex is a     *)
(* queue of calls whose head runs, as module Mutex shows.                  *)
(*                                                                         *)
(* An awaited transaction is refused by the simulation that precedes it,   *)
(* or mined, whether its receipt is seen or waiting for it times out.      *)
(*                                                                         *)
(* The payer's database is SQLite, as the query of findUsable does not run *)
(* on PostgreSQL.  On SQLite the insert into table payment binds the       *)
(* contract of the payment, which is always undefined, and node:sqlite     *)
(* throws, so that table stays empty.                                      *)
(***************************************************************************)
EXTENDS PaymentNetwork

VARIABLES
  senderRows,       \* table channel
  pc,               \* where each call is
  at,               \* the channel it works on, or NoId
  spent,            \* channel.spent as nextPayment read it
  senderQueue       \* Mutex: the calls on each key, in order

task == <<pc, at, spent, senderQueue>>
senderVars == <<senderRows, task>>

Call == Purchase \cup Opening \cup Deposit \cup Closing
Key == Id \cup {Default}
Over == {"idle", "done", "failed"}
InFlight == {p \in Purchase : pc[p] \notin Over}

SenderInit ==
  /\ senderRows = <<>>
  /\ pc = [t \in Call |-> "idle"]
  /\ at = [t \in Call |-> NoId]
  /\ spent = [t \in Call |-> 0]
  /\ senderQueue = [k \in Key |-> <<>>]

Holds(t, k) == senderQueue[k] # <<>> /\ Head(senderQueue[k]) = t
KeyOf(t) == IF pc[t] \in {"find", "inflate", "open", "save"} THEN Default ELSE at[t]

Runs_Unlocked(t, label) == pc[t] = label
Runs(t, label) == pc[t] = label /\ Holds(t, KeyOf(t))
Goto(t, label) == pc' = [pc EXCEPT ![t] = label]

Enqueue(t, k) == senderQueue' = [senderQueue EXCEPT ![k] = Append(@, t)]

release(t) == senderQueue' = [senderQueue EXCEPT ![KeyOf(t)] = Tail(@)]

\* The call returns or throws; a call that holds a key releases it.
Finish(t, outcome) ==
  /\ Goto(t, outcome)
  /\ at' = [at EXCEPT ![t] = NoId]
  /\ spent' = [spent EXCEPT ![t] = 0]

Throw(t) == Finish(t, "failed") /\ release(t)

-----------------------------------------------------------------------------
(* Purchases. *)

buy(p) ==
  /\ pc[p] = "idle"
  /\ Cardinality(InFlight) < MaxInFlight
  /\ Goto(p, "find")
  /\ Enqueue(p, Default)
  /\ UNCHANGED <<chain, payment, wire, senderRows, at, spent>>

\* From the task on the default key to the task on the channel's key.
Proceed(p, id) ==
  /\ Goto(p, "read")
  /\ at' = [at EXCEPT ![p] = id]
  /\ senderQueue' = [senderQueue EXCEPT ![Default] = Tail(@), ![id] = Append(@, p)]
  /\ UNCHANGED spent

\* findUsable, first its query: the row it returns, or none.
requireOpenChannel(p) ==
  /\ Runs(p, "find")
  /\ \/ \E id \in firstCandidate(senderRows, Price[p]) :
          Goto(p, "inflate") /\ at' = [at EXCEPT ![p] = id]
     \/ /\ firstCandidate(senderRows, Price[p]) = {}
        /\ Goto(p, "open")
        /\ UNCHANGED at
  /\ UNCHANGED <<chain, payment, wire, senderRows, spent, senderQueue>>

\* Then the chain: the channel found is used if it is open there by now.
findUsable(p) ==
  /\ Runs(p, "inflate")
  /\ \/ channelState(at[p]) = Open /\ Proceed(p, at[p])
     \/ /\ channelState(at[p]) # Open
        /\ Goto(p, "open")
        /\ at' = [at EXCEPT ![p] = NoId]
        /\ UNCHANGED <<spent, senderQueue>>
  /\ UNCHANGED <<chain, payment, wire, senderRows>>

\* Ten times the price, or the value that "open" was given.
minDepositAmount(t) == IF t \in Purchase THEN MinDeposit ELSE 0
DepositAmount(t) == IF minDepositAmount(t) > 10 * Price[t]
                    THEN minDepositAmount(t) ELSE 10 * Price[t]

\* IohTee.open: the application opens a channel without buying anything.
openChannel(t) ==
  /\ pc[t] = "idle"
  /\ Goto(t, "open")
  /\ Enqueue(t, Default)
  /\ UNCHANGED <<chain, payment, wire, senderRows, at, spent>>

\* Ids are 32 random bytes: never one that was used before.
Fresh(id) == /\ phase[id] = "none"
             /\ ~Knows(senderRows, id)
             /\ \A t \in Call : at[t] # id
             /\ \A promise \in promised : promise.id # id

\* The funds are short, or the node does not take the transaction.
refusedOpen(p) ==
  /\ Runs(p, "open")
  /\ "refused" \in Faults \/ DepositAmount(p) > purse[Sender]
  /\ Throw(p)
  /\ UNCHANGED <<chain, payment, wire, senderRows>>

\* The receipt has to hold the event of the opening.
DidOpen(id, t) == Chain!Open(id, Sender, Receiver, DepositAmount(t))

\* internalOpenChannel: the transaction, then the row.
internalOpenChannel(p) ==
  /\ Runs(p, "open")
  /\ \E id \in Id :
       /\ Fresh(id)
       /\ DidOpen(id, p)
       /\ \/ /\ Goto(p, "save")
             /\ at' = [at EXCEPT ![p] = id]
             /\ UNCHANGED <<spent, senderQueue>>
          \/ "timeout" \in Faults /\ Throw(p)
  /\ UNCHANGED <<payment, wire, senderRows>>

\* A purchase goes on to pay, an opening is over.
Opened(t) == IF t \in Purchase THEN Proceed(t, at[t])
             ELSE Finish(t, "done") /\ release(t)

saveOpened_Forgets(p) ==
  /\ Runs(p, "save")
  /\ senderRows' = senderRows
  /\ Opened(p)
  /\ UNCHANGED <<chain, payment, wire>>

saveOpened(p) ==
  /\ Runs(p, "save")
  /\ \/ /\ CanSave(senderRows, at[p])
        /\ senderRows' = save(senderRows, Row(at[p], DepositAmount(p), 0, Open))
        /\ Opened(p)
     \/ /\ ~CanSave(senderRows, at[p])
        /\ Throw(p)
        /\ UNCHANGED senderRows
  /\ UNCHANGED <<chain, payment, wire>>

\* channelById: spent from the row, then the value from the chain.
readSpent(p) ==
  /\ Runs(p, "read")
  /\ spent' = [spent EXCEPT ![p] = RowOf(senderRows, at[p]).spent]
  /\ Goto(p, "check")
  /\ UNCHANGED <<chain, payment, wire, senderRows, at, senderQueue>>

covers_PriceOnly(p, value) == Price[p] <= value
covers(p, value) == spent[p] + Price[p] <= value

toSpend_PriceOnly(p) == Price[p]
toSpend(p) == spent[p] + Price[p]

\* With the value that channelById has read from the chain.
buildPaymentForChannel(p, value) ==
  [id |-> at[p], value |-> toSpend(p), channelValue |-> value]

nextPayment(p) ==
  /\ Runs(p, "check")
  /\ UNCHANGED <<chain, wire, senderRows>>
  /\ \/ /\ ~covers(p, escrow[at[p]])
        /\ Throw(p)
        /\ UNCHANGED payment
     \/ /\ covers(p, escrow[at[p]])
        /\ payment' = [payment EXCEPT ![p] = buildPaymentForChannel(p, escrow[at[p]])]
        /\ Goto(p, "sign")
        /\ UNCHANGED <<at, spent, senderQueue>>

\* What is signed is the digest of the channel and the amount.
sign(p) == Chain!Vow(Sender, at[p], payment[p].value)

\* Once the payment is signed, the key is free and the request leaves.
doPayment(p) ==
  /\ Runs(p, "sign")
  /\ sign(p)
  /\ wire' = [wire EXCEPT ![p] = "request"]
  /\ Goto(p, "sent")
  /\ release(p)
  /\ UNCHANGED <<payment, senderRows, at, spent>>

receiveAnswer(p) ==
  /\ pc[p] = "sent"
  /\ \/ wire[p] = "token" /\ Goto(p, "spend") /\ UNCHANGED <<at, spent>>
     \/ wire[p] = "error" /\ Finish(p, "failed")
  /\ UNCHANGED <<chain, payment, wire, senderRows, senderQueue>>

\* The connection fails before or after the gateway has done its work.
loseConnection(p) ==
  /\ "lost" \in Faults
  /\ pc[p] = "sent"
  /\ wire' = [wire EXCEPT ![p] = "lost"]
  /\ Finish(p, "failed")
  /\ UNCHANGED <<chain, payment, senderRows, senderQueue>>

\* spendChannel takes no key of the mutex.
spendChannel_Adds(p) ==
  /\ pc[p] = "spend"
  /\ senderRows' = saveOrUpdate(senderRows,
       Row(at[p], payment[p].channelValue,
           RowOf(senderRows, at[p]).spent + payment[p].value, Open))
  /\ Goto(p, "store")
  /\ UNCHANGED <<chain, payment, wire, at, spent, senderQueue>>

spendChannel(p) ==
  /\ pc[p] = "spend"
  /\ senderRows' = saveOrUpdate(senderRows, fromPayment(payment[p]))
  /\ Goto(p, "store")
  /\ UNCHANGED <<chain, payment, wire, at, spent, senderQueue>>

\* The insert throws, and with it buy, although the gateway gave a token.
storePayment(p) ==
  /\ pc[p] = "store"
  /\ Finish(p, "failed")
  /\ UNCHANGED <<chain, payment, wire, senderRows, senderQueue>>

-----------------------------------------------------------------------------
(* Deposits and closings. *)

\* The application names a channel it has seen.
begin(t) ==
  /\ pc[t] = "idle"
  /\ t \in Deposit \cup Closing
  /\ \E id \in Id :
       /\ Knows(senderRows, id) \/ phase[id] # "none"
       /\ at' = [at EXCEPT ![t] = id]
       /\ Enqueue(t, id)
  /\ Goto(t, "lookup")
  /\ UNCHANGED <<chain, payment, wire, senderRows, spent>>

\* handleUnknownChannel: the row of a channel found only on the chain.
Recovered(rows, id) ==
  IF Knows(rows, id) THEN rows
  ELSE save(rows, Row(id, escrow[id], 0, channelState(id)))

\* The call that opened the channel may insert its row in between.
Overtaken(t) == /\ ~Knows(senderRows, at[t])
                /\ \E p \in Purchase \cup Opening : pc[p] = "save" /\ at[p] = at[t]

\* Every transaction is simulated before it is sent.
mayDeposit(t) == phase[at[t]] = "open" /\ Extra[t] <= purse[Sender]
mayStartSettling(t) == phase[at[t]] = "open"
maySettle(t) == phase[at[t]] = "expired"

Label(t) == IF t \in Deposit THEN "topup"
            ELSE IF channelState(at[t]) = Open THEN "startSettle" ELSE "finishSettle"
Possible(label, t) == \/ label = "topup" /\ mayDeposit(t)
                      \/ label = "startSettle" /\ mayStartSettling(t)
                      \/ label = "finishSettle" /\ maySettle(t)

\* channelById, for a closing the state that "settle" switches on, and the
\* simulation that every transaction has to pass before it is sent.
lookUp(t) ==
  /\ Runs(t, "lookup")
  /\ \/ /\ phase[at[t]] # "none" /\ Possible(Label(t), t)
        /\ senderRows' = Recovered(senderRows, at[t])
        /\ Goto(t, Label(t))
        /\ UNCHANGED <<at, spent, senderQueue>>
     \/ /\ phase[at[t]] # "none"
        /\ ~Possible(Label(t), t) \/ "refused" \in Faults
        /\ senderRows' = Recovered(senderRows, at[t])
        /\ Throw(t)
     \/ /\ phase[at[t]] = "none" \/ Overtaken(t)
        /\ UNCHANGED senderRows
        /\ Throw(t)
  /\ UNCHANGED <<chain, payment, wire>>

After(label) == CASE label = "topup" -> "credit"
                  [] label = "startSettle" -> "announced"
                  [] label = "finishSettle" -> "refunded"

\* A transaction that reverts when it is mined has no effect, and its
\* receipt is taken for success.
Transact(t) ==
  \/ pc[t] = "topup" /\ Chain!TopUp(at[t], Extra[t])
  \/ pc[t] = "startSettle" /\ Chain!Announce(at[t])
  \/ pc[t] = "finishSettle" /\ Chain!Refund(at[t])
  \/ ~Possible(pc[t], t) /\ UNCHANGED chain

mined(t) ==
  /\ pc[t] \in {"topup", "startSettle", "finishSettle"}
  /\ Holds(t, KeyOf(t))
  /\ Transact(t)
  /\ \/ Goto(t, After(pc[t])) /\ UNCHANGED <<at, spent, senderQueue>>
     \/ "timeout" \in Faults /\ Throw(t)
  /\ UNCHANGED <<payment, wire, senderRows>>

\* The row update that follows: deposit adds to the value the chain already has.
Update(t) ==
  \/ /\ pc[t] = "credit"
     /\ senderRows' = updateValue(senderRows, at[t], escrow[at[t]] + Extra[t])
  \/ pc[t] = "announced" /\ senderRows' = updateState(senderRows, at[t], Settling)
  \/ pc[t] = "refunded" /\ senderRows' = updateState(senderRows, at[t], Settled)

record(t) ==
  /\ pc[t] \in {"credit", "announced", "refunded"}
  /\ Holds(t, KeyOf(t))
  /\ Update(t)
  /\ Finish(t, "done")
  /\ release(t)
  /\ UNCHANGED <<chain, payment, wire>>

\* The process ends; the database and what it sent remain.
senderCrash ==
  /\ "crash" \in Faults
  /\ \E t \in Call : pc[t] \notin Over
  /\ pc' = [t \in Call |-> IF pc[t] \in Over THEN pc[t] ELSE "failed"]
  /\ at' = [t \in Call |-> NoId]
  /\ spent' = [t \in Call |-> 0]
  /\ senderQueue' = [k \in Key |-> <<>>]
  /\ wire' = [p \in Purchase |-> IF pc[p] = "sent" THEN "lost" ELSE wire[p]]
  /\ UNCHANGED <<chain, payment, senderRows>>

SenderCall(t) ==
  \/ /\ t \in Purchase \cup Opening
     /\ \/ internalOpenChannel(t)
        \/ refusedOpen(t)
        \/ saveOpened(t)
  \/ /\ t \in Purchase
     /\ \/ requireOpenChannel(t)
        \/ findUsable(t)
        \/ readSpent(t)
        \/ nextPayment(t)
        \/ doPayment(t)
        \/ receiveAnswer(t)
        \/ spendChannel(t)
        \/ storePayment(t)
  \/ t \in Deposit \cup Closing /\ (lookUp(t) \/ mined(t) \/ record(t))

SenderNext ==
  \/ \E p \in Purchase : buy(p) \/ loseConnection(p)
  \/ \E t \in Opening : openChannel(t)
  \/ \E t \in Deposit \cup Closing : begin(t)
  \/ \E t \in Call : SenderCall(t)
  \/ senderCrash
=============================================================================
