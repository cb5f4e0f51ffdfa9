------------------------------- MODULE Receiver -------------------------------
(***************************************************************************)
(* The paid process: ChannelManager.acceptPayment behind the gateway's     *)
(* POST handler, and IohTee.close.  A handler is named by the call that    *)
(* started it: a purchase whose request arrived, or a claim.               *)
(*                                                                         *)
(* Tables token and payment have a foreign key on table channel, which     *)
(* node:sqlite and PostgreSQL enforce.  Promise.all starts three writes:   *)
(* the first only looks its row up before it yields.  On SQLite the token  *)
(* is therefore inserted before the channel is, and the insert of the      *)
(* payment always throws, as it binds undefined; on PostgreSQL the three   *)
(* run on connections of their own, in any order.  The first write that    *)
(* fails rejects the payment, and the others take their effect all the     *)
(* same: taken to be done by the time that the next handler on the key has *)
(* made its first reads and its calls to the chain.                        *)
(***************************************************************************)
EXTENDS PaymentNetwork

VARIABLES
  receiverRows,       \* table channel
  receiverPayments,   \* table payment: the purchases stored
  tokens,             \* table token: the purchases that have one
  handler,            \* where each handler is
  target,             \* the channel a claim is for, or NoId
  seen,               \* channel.value or payment.value, as it was read
  receiverQueue       \* Mutex: the handlers on each channel, in order

tables == <<receiverRows, receiverPayments, tokens>>
receiverVars == <<tables, handler, target, seen, receiverQueue>>

Handler == Purchase \cup Claim
Ended == {"none", "accepted", "refused", "claimed", "threw"}

ReceiverInit ==
  /\ receiverRows = <<>>
  /\ receiverPayments = {}
  /\ tokens = {}
  /\ handler = [h \in Handler |-> "none"]
  /\ target = [c \in Claim |-> NoId]
  /\ seen = [h \in Handler |-> 0]
  /\ receiverQueue = [id \in Id |-> <<>>]

ChannelOf(h) == IF h \in Purchase THEN payment[h].id ELSE target[h]

Serves(h, label) ==
  /\ handler[h] = label
  /\ Head(receiverQueue[ChannelOf(h)]) = h

Continue(h, label) == handler' = [handler EXCEPT ![h] = label]

Await(h, id) == receiverQueue' = [receiverQueue EXCEPT ![id] = Append(@, h)]

End_KeepsKey(h, outcome) ==
  /\ Continue(h, outcome)
  /\ seen' = [seen EXCEPT ![h] = 0]
  /\ UNCHANGED receiverQueue

\* The handler returns or throws, and the key is released.
End(h, outcome) ==
  /\ Continue(h, outcome)
  /\ seen' = [seen EXCEPT ![h] = 0]
  /\ receiverQueue' = [receiverQueue EXCEPT ![ChannelOf(h)] = Tail(@)]

Reject(h) ==
  /\ End(h, IF h \in Purchase THEN "refused" ELSE "threw")
  /\ IF h \in Purchase THEN Answer(h, "error") ELSE UNCHANGED wire

-----------------------------------------------------------------------------
(* Payments. *)

\* The request arrives, perhaps after its sender stopped waiting for it.
acceptPayment(p) ==
  /\ handler[p] = "none"
  /\ wire[p] \in {"request", "lost"}
  /\ Continue(p, "find")
  /\ Await(p, payment[p].id)
  /\ UNCHANGED <<chain, payment, wire, tables, target, seen>>

\* A known channel has its value from the chain, an unknown one from the payment.
findChannel(p) ==
  /\ Serves(p, "find")
  /\ LET found == findBySenderReceiverChannelId(receiverRows, p) IN
       \E value \in IF found = {} THEN {payment[p].channelValue}
                    ELSE {row.value : row \in found} :
         seen' = [seen EXCEPT ![p] = value]
  /\ Continue(p, "validate")
  /\ UNCHANGED <<chain, payment, wire, tables, target, receiverQueue>>

isAboveMinSettlementPeriod(p) == MinSettlementPeriod <= getSettlementPeriod(payment[p].id)

isValid(p) == /\ seen[p] = payment[p].channelValue
              /\ payment[p].value <= payment[p].channelValue
              /\ canClaim(payment[p])
              /\ isAboveMinSettlementPeriod(p)

\* Which of the two inserts succeed.  Those that come before the row of a
\* new channel fail; on SQLite that is the token's, and the payment's always
\* fails.
Inserts == {"token", "payment"}
Inserted(p) ==
  LET known == Knows(receiverRows, payment[p].id) IN
  IF ReceiverEngine = "sqlite" THEN {IF known THEN {"token"} ELSE {}}
  ELSE IF known THEN {Inserts} ELSE SUBSET Inserts

storeAccepted_TokenOnly(p, done) ==
  /\ tokens' = IF "token" \in done THEN tokens \cup {p} ELSE tokens
  /\ UNCHANGED receiverPayments
storeAccepted(p, done) ==
  /\ tokens' = IF "token" \in done THEN tokens \cup {p} ELSE tokens
  /\ receiverPayments' = IF "payment" \in done THEN receiverPayments \cup {p}
                         ELSE receiverPayments

\* The row of a known channel, once both inserts are done, is left to reply.
accept(p) ==
  /\ Serves(p, "validate")
  /\ isValid(p)
  /\ \E done \in Inserted(p) :
       /\ storeAccepted(p, done)
       /\ \/ /\ done = Inserts
             /\ receiverRows' = IF Knows(receiverRows, payment[p].id) THEN receiverRows
                                ELSE save(receiverRows, fromPayment(payment[p]))
             /\ Continue(p, "spend")
             /\ UNCHANGED <<wire, seen, receiverQueue>>
          \/ /\ done # Inserts
             /\ receiverRows' = saveOrUpdate(receiverRows, fromPayment(payment[p]))
             /\ Reject(p)
  /\ UNCHANGED <<chain, payment, target>>

reply(p) ==
  /\ Serves(p, "spend")
  /\ receiverRows' = spend(receiverRows, payment[p].id, payment[p].value)
  /\ End(p, "accepted")
  /\ Answer(p, "token")
  /\ UNCHANGED <<chain, payment, tokens, receiverPayments, target>>

\* closeOnInvalidPayment closes an existing channel under the key it holds.
refuse(p) ==
  /\ Serves(p, "validate")
  /\ ~isValid(p)
  /\ IF CloseOnInvalidPayment /\ findBySenderReceiverChannelId(receiverRows, p) # {}
     THEN /\ Continue(p, "lookup")
          /\ UNCHANGED <<wire, seen, receiverQueue>>
     ELSE Reject(p)
  /\ UNCHANGED <<chain, payment, tables, target>>

-----------------------------------------------------------------------------
(* Claims. *)

closeChannel(c) ==
  /\ c \in Claim
  /\ handler[c] = "none"
  /\ \E id \in Id :
       /\ Knows(receiverRows, id) \/ phase[id] # "none"
       /\ target' = [target EXCEPT ![c] = id]
       /\ Await(c, id)
  /\ Continue(c, "lookup")
  /\ UNCHANGED <<chain, payment, wire, tables, seen>>

Amounts(id) == {payment[p].value : p \in {q \in receiverPayments : payment[q].id = id}}

lastPayment_Least(id) == CHOOSE m \in Amounts(id) : \A a \in Amounts(id) : TextLeq(m, a)
lastPayment(id) == TextMax(Amounts(id))

\* A claim is simulated before it is sent; the promise is one it has checked.
mayClaim(id) == phase[id] # "none"

\* channelById or handleUnknownChannel, the payment to claim with, and the
\* simulation of the claim.
lookUpClaim(h) ==
  LET id == ChannelOf(h)
      row == Row(id, escrow[id], 0, channelState(id))
      claims == Amounts(id) # {} /\ mayClaim(id)
  IN
  /\ Serves(h, "lookup")
  /\ receiverRows' = IF Knows(receiverRows, id) \/ phase[id] = "none"
                     THEN receiverRows ELSE save(receiverRows, row)
  /\ \/ /\ claims
        /\ seen' = [seen EXCEPT ![h] = lastPayment(id)]
        /\ Continue(h, "claim")
        /\ UNCHANGED <<wire, receiverQueue>>
     \/ ("refused" \in Faults \/ ~claims) /\ Reject(h)
  /\ UNCHANGED <<chain, payment, tokens, receiverPayments, target>>

\* A claim that reverts when it is mined pays nothing, and its receipt is
\* taken for success.
minedClaim(h) ==
  /\ Serves(h, "claim")
  /\ \/ Chain!Redeem(ChannelOf(h), seen[h])
     \/ ~mayClaim(ChannelOf(h)) /\ UNCHANGED chain
  /\ \/ Continue(h, "record") /\ UNCHANGED <<wire, seen, receiverQueue>>
     \/ "timeout" \in Faults /\ Reject(h)
  /\ UNCHANGED <<payment, tables, target>>

recordClaim(h) ==
  /\ Serves(h, "record")
  /\ receiverRows' = updateState(receiverRows, ChannelOf(h), Settled)
  /\ IF h \in Purchase THEN Reject(h) ELSE End(h, "claimed") /\ UNCHANGED wire
  /\ UNCHANGED <<chain, payment, tokens, receiverPayments, target>>

receiverCrash ==
  LET active == {h \in Handler : handler[h] \notin Ended} IN
  /\ "crash" \in Faults
  /\ active # {}
  /\ handler' = [h \in Handler |-> IF h \notin active THEN handler[h]
                                   ELSE IF h \in Purchase THEN "refused" ELSE "threw"]
  /\ seen' = [h \in Handler |-> 0]
  /\ receiverQueue' = [id \in Id |-> <<>>]
  /\ wire' = [p \in Purchase |-> IF p \in active /\ wire[p] = "request"
                                 THEN "error" ELSE wire[p]]
  /\ UNCHANGED <<chain, payment, tables, target>>

ReceiverCall(h) ==
  \/ h \in Purchase /\ (findChannel(h) \/ accept(h) \/ reply(h) \/ refuse(h))
  \/ lookUpClaim(h)
  \/ minedClaim(h)
  \/ recordClaim(h)

ReceiverNext ==
  \/ \E p \in Purchase : acceptPayment(p)
  \/ \E c \in Claim : closeChannel(c)
  \/ \E h \in Handler : ReceiverCall(h)
  \/ receiverCrash
=============================================================================
