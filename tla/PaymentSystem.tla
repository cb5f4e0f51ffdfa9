---------------------------- MODULE PaymentSystem -----------------------------
(***************************************************************************)
(* A sender and a receiver that run the library against one contract: the  *)
(* two processes of packages/examples (client.ts and hub.ts), whose steps  *)
(* interleave with each other, with the chain and with their own calls.    *)
(***************************************************************************)
EXTENDS Sender, Receiver, FiniteSetsExt

vars == <<chain, payment, wire, senderVars, receiverVars>>

Init == NetworkInit /\ SenderInit /\ ReceiverInit

Next == \/ SenderNext /\ UNCHANGED receiverVars
        \/ ReceiverNext /\ UNCHANGED senderVars
        \/ Expire /\ UNCHANGED <<senderVars, receiverVars>>

Spec == Init /\ [][Next]_vars

(* A call that holds its key goes on, every RPC and database call it awaits *)
(* settles, a request that nobody gave up on arrives, and blocks pass.      *)
FairSpec ==
  /\ Spec
  /\ \A t \in Call : WF_vars(SenderCall(t) /\ UNCHANGED receiverVars)
  /\ \A h \in Handler : WF_vars(ReceiverCall(h) /\ UNCHANGED senderVars)
  /\ \A p \in Purchase : WF_vars(acceptPayment(p) /\ UNCHANGED senderVars)

-----------------------------------------------------------------------------
(* Properties. *)

(* While a channel is on the chain, its value covers every promise ever     *)
(* signed for it: nextPayment compares with the chain's value, and what is  *)
(* read under the mutex stays good until the signature exists.              *)
PromisesAreCovered ==
  \A promise \in promised :
    phase[promise.id] # "none" => promise.amount <= escrow[promise.id]

(* The receiver answers a token only after it has durably stored both that  *)
(* token, which verifyToken looks up, and the payment, which claim needs:   *)
(* the three writes of acceptPayment fail one by one and in any order, and  *)
(* crashes, lost answers and overlapping purchases come in between.         *)
AnsweredIsStored ==
  \A p \in Purchase : wire[p] = "token" => p \in tokens \cap receiverPayments

Worth(id) == Max({0} \cup Amounts(id))

(* What the receiver answered tokens for on a channel is covered by the     *)
(* best promise it has stored for that channel.                             *)
Earned(id) == MapThenSumSet(LAMBDA p : Price[p],
                {p \in Purchase : handler[p] = "accepted" /\ payment[p].id = id})
EarningsAreRedeemable == \A id \in Id : Earned(id) <= Worth(id)

(* Between purchases the two databases agree: the sender counts as spent    *)
(* exactly the prices of what the receiver answered tokens for.  Payments   *)
(* that it refused, some of them after it had stored them, are not counted, *)
(* and the next one asks for them no more.                                  *)
BooksAgree ==
  InFlight = {} =>
    \A i \in DOMAIN senderRows : senderRows[i].spent = Earned(senderRows[i].id)

(* A closing by the receiver pays the largest promise it has stored.        *)
Redeems(h) == handler[h] = "claim" /\ handler'[h] = "record"
ClaimsTheMost ==
  [][\A h \in Handler : Redeems(h) => seen[h] = Worth(ChannelOf(h))]_vars

(* A purchase sets out to open a channel only when nobody else is opening   *)
(* one, so two purchases at once do not open two where one has room for     *)
(* both; and only when none of its channels is open on the chain with room  *)
(* for its price as the table is queried, or when the one that the query    *)
(* has picked is no longer open.  Two things hide a channel with room from  *)
(* the query: a value that a deposit has raised on the chain and not yet in *)
(* the row, and an earlier row, which is picked instead.                    *)
HasRoom(row, price) ==
  phase[row.id] = "open" /\ row.spent + price <= escrow[row.id]

Picks(p, i) ==
  pc'[p] = "inflate" /\ \E j \in 1 .. i : senderRows[j].id = at'[p]

NothingIsMissed(p) ==
  pc[p] = "find" /\ pc'[p] \in {"inflate", "open"} =>
    \A i \in DOMAIN senderRows : HasRoom(senderRows[i], Price[p]) =>
      senderRows[i].value < escrow[senderRows[i].id] \/ Picks(p, i)

DecidesAlone(p) ==
  pc[p] \in {"find", "inflate"} /\ pc'[p] = "open" =>
    /\ \A t \in Call : pc[t] # "save" /\ (t \in Purchase => pc[t] # "open")
    /\ pc[p] = "inflate" => phase[at[p]] # "open"

OpensOnlyWhenNeeded ==
  [][\A p \in Purchase : NothingIsMissed(p) /\ DecidesAlone(p)]_vars

(* Without crashes and timeouts, every channel the sender pays for is in    *)
(* its table or about to be: internalOpenChannel writes the row after the   *)
(* transaction.                                                             *)
ChannelsAreRecorded ==
  \A id \in Id : phase[id] # "none" =>
    \/ Knows(senderRows, id)
    \/ \E t \in Call : pc[t] = "save" /\ at[t] = id

(* The listings are true on both sides: a channel with a row is listed as   *)
(* open exactly while it is open on the chain, and as settling exactly      *)
(* while it is settling there.  The chain's state replaces that of a row,   *)
(* but only of the rows that the stored state lets through, so no path may  *)
(* store that a channel is settling or settled while the chain has it open. *)
Listed(rows) == {row.id : row \in rows}
ListingsAreTrue ==
  \A rows \in {senderRows, receiverRows} : \A id \in Id :
    Knows(rows, id) =>
      /\ phase[id] = "open" <=> id \in Listed(allOpen(rows))
      /\ phase[id] \in {"settling", "expired"} <=> id \in Listed(allSettling(rows))

(* Every call of the application returns or throws, and every request that  *)
(* arrives is answered: no task waits on a key that is never released.      *)
EveryCallEnds ==
  /\ \A t \in Call : pc[t] # "idle" ~> pc[t] \in Over
  /\ \A h \in Handler : handler[h] # "none" ~> handler[h] \in Ended
=============================================================================
