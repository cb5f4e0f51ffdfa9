----------------------------- MODULE TokenChannels -----------------------------
(***************************************************************************)
(* The library's calls on token channels, and the transactions they send   *)
(*   packages/iohtee/src/ChannelTokenContract.ts, ChannelContract.ts       *)
(*   packages/contracts/src/TokenUnidirectional.ts                         *)
(*   packages/contracts/src/abi-wrapper/TokenUnidirectionalUpgradeable-    *)
(*   Contract.ts                                                           *)
(* A payer opens channels, deposits into them and closes them; the payee   *)
(* claims.  Opening and depositing take two transactions: the allowance,   *)
(* then the transfer.  Every transaction is simulated, sent, mined in the  *)
(* order of its account, and waited for; a receipt says whether it         *)
(* reverted, but no caller looks.                                          *)
(***************************************************************************)
EXTENDS TokenUnidirectional, Sequences, FiniteSets

CONSTANTS
  Payer, Payee,
  Opening, Topping, Closing,   \* calls of the payer's library
  Claiming,                    \* calls of the payee's library
  SettlementPeriod,            \* options.settlementPeriod
  MaxAtOnce,                   \* calls the payer has under way at once
  MaxPromises,                 \* bounds the promises signed
  Faults                       \* "timeout": receipts may come too late

ASSUME CallsAssumption == /\ {Payer, Payee} \subseteq Account
                          /\ Zero \notin Id
                          /\ Opening \cap (Topping \cup Closing \cup Claiming) = {}
                          /\ Topping \cap (Closing \cup Claiming) = {}
                          /\ Closing \cap Claiming = {}
                          /\ SettlementPeriod \in Period \ {0}
                          /\ MaxAtOnce \in Nat /\ MaxPromises \in Nat

VARIABLES
  step,       \* where each call is
  work,       \* the channel, token and amount it is about
  receipt,    \* the status of its last transaction
  mempool,    \* transactions sent and not mined, in the order of each account
  rows        \* the payer's table channel: id and tokenContract

calls == <<step, work, receipt, mempool, rows>>
all == <<vars, calls>>

Call == Opening \cup Topping \cup Closing \cup Claiming
Over == {"idle", "done", "failed"}
Waiting == {"approving", "opening", "depositing", "announcing", "settling", "claiming"}
Active == {t \in Call \ Claiming : step[t] \notin Over}
Caller(t) == IF t \in Claiming THEN Payee ELSE Payer

Nothing == [id |-> Zero, token |-> Zero, value |-> 0]

CallsInit ==
  /\ step = [t \in Call |-> "idle"]
  /\ work = [t \in Call |-> Nothing]
  /\ receipt = [t \in Call |-> "none"]
  /\ mempool = [account \in {Payer, Payee} |-> <<>>]
  /\ rows = {}

Goto(t, label) == step' = [step EXCEPT ![t] = label]

\* The call returns or throws.
Finish(t, outcome) == /\ Goto(t, outcome)
                      /\ work' = [work EXCEPT ![t] = Nothing]
                      /\ receipt' = [receipt EXCEPT ![t] = "none"]

Knows(id) == \E row \in rows : row.id = id

\* The mutex: openings under one key, other calls under their channel's.
KeyIsFree(t, id) ==
  \A other \in Active :
    IF t \in Opening THEN other \notin Opening
    ELSE other \in Opening \/ work[other].id # id

Begin(t, id, token, value, label) ==
  /\ step[t] = "idle"
  /\ t \notin Claiming => Cardinality(Active) < MaxAtOnce /\ KeyIsFree(t, id)
  /\ Goto(t, label)
  /\ work' = [work EXCEPT ![t] = [id |-> id, token |-> token, value |-> value]]
  /\ UNCHANGED <<vars, receipt, mempool, rows>>

-----------------------------------------------------------------------------
(* Sending a transaction: simulateContract, then writeContract.             *)

Sends(t, function, label) ==
  /\ Goto(t, label)
  /\ receipt' = [receipt EXCEPT ![t] = "none"]
  /\ mempool' = [mempool EXCEPT ![Caller(t)] =
       Append(@, [call |-> t, function |-> function, args |-> work[t]])]
  /\ UNCHANGED <<vars, work, rows>>

\* The simulation reverts: the call throws.
Refused(t, may) ==
  /\ ~may
  /\ Finish(t, "failed")
  /\ UNCHANGED <<vars, mempool, rows>>

callApprove(t) == step[t] = "approve" /\ Sends(t, "approve", "approving")

MayOpen(args) == mayOpen(Payer, args.id, Payee, SettlementPeriod, args.token, args.value)
MayDeposit(args) == mayDeposit(Payer, args.id, args.value)
MayStartSettling(args) == mayStartSettling(Payer, args.id)
MaySettle(args) == maySettle(args.id)
MayClaim(args) == mayClaim(Payee, args.id, args.value)

callOpen_NotSimulated(t) == step[t] = "open" /\ Sends(t, "open", "opening")
callOpen(t) == /\ step[t] = "open"
               /\ \/ MayOpen(work[t]) /\ Sends(t, "open", "opening")
                  \/ Refused(t, MayOpen(work[t]))
callDeposit(t) == /\ step[t] = "deposit"
                  /\ \/ MayDeposit(work[t]) /\ Sends(t, "deposit", "depositing")
                     \/ Refused(t, MayDeposit(work[t]))
callStartSettling(t) ==
  /\ step[t] = "startSettling"
  /\ \/ MayStartSettling(work[t]) /\ Sends(t, "startSettling", "announcing")
     \/ Refused(t, MayStartSettling(work[t]))
callSettle(t) == /\ step[t] = "settle"
                 /\ \/ MaySettle(work[t]) /\ Sends(t, "settle", "settling")
                    \/ Refused(t, MaySettle(work[t]))
callClaim(t) == /\ step[t] = "claim"
                /\ \/ MayClaim(work[t]) /\ Sends(t, "claim", "claiming")
                   \/ Refused(t, MayClaim(work[t]))

-----------------------------------------------------------------------------
(* Mining: the oldest transaction of an account takes effect or reverts.    *)

Effect(tx) ==
  LET args == tx.args IN
  \/ /\ tx.function = "approve"
     /\ approve(Payer, args.token, args.value) /\ UNCHANGED contract
  \/ /\ tx.function = "open"
     /\ open(Payer, args.id, Payee, SettlementPeriod, args.token, args.value)
  \/ tx.function = "deposit" /\ deposit(Payer, args.id, args.value)
  \/ tx.function = "startSettling" /\ startSettling(Payer, args.id)
  \/ tx.function = "settle" /\ settle(args.id)
  \/ tx.function = "claim" /\ claim(Payee, args.id, args.value)

Reverts(tx) ==
  LET args == tx.args IN
  \/ tx.function = "open" /\ ~MayOpen(args)
  \/ tx.function = "deposit" /\ ~MayDeposit(args)
  \/ tx.function = "startSettling" /\ ~MayStartSettling(args)
  \/ tx.function = "settle" /\ ~MaySettle(args)
  \/ tx.function = "claim" /\ ~MayClaim(args)

\* A call that has given up does not see the receipt.
Status(tx, status) ==
  receipt' = [receipt EXCEPT ![tx.call] =
                IF step[tx.call] \in Waiting THEN status ELSE @]

Execute(account) ==
  LET tx == Head(mempool[account]) IN
  /\ mempool[account] # <<>>
  /\ mempool' = [mempool EXCEPT ![account] = Tail(@)]
  /\ \/ Effect(tx) /\ Status(tx, "success")
     \/ Reverts(tx) /\ Status(tx, "reverted") /\ UNCHANGED vars
  /\ UNCHANGED <<step, work, rows>>

-----------------------------------------------------------------------------
(* Calls. *)

\* Ids are 32 random bytes: never one that was used before.
Fresh(id) == /\ isAbsent(id)
             /\ ~Knows(id)
             /\ \A t \in Call : work[t].id # id
             /\ \A promise \in signed : promise.id # id
             /\ \A account \in {Payer, Payee} : \A i \in DOMAIN mempool[account] :
                  mempool[account][i].args.id # id

openChannel(t) == /\ t \in Opening
                  /\ \E id \in Id, token \in Token, value \in Value :
                       Fresh(id) /\ Begin(t, id, token, value, "approve")

\* The token is that of the row.  Without a row the Ether contract is asked
\* for the channel, which does not know it: the call throws at once.
depositInto(t) == /\ t \in Topping
                  /\ \E row \in rows, value \in Value :
                       Begin(t, row.id, row.token, value, "approve")

closeChannel(t) == /\ t \in Closing
                   /\ \E row \in rows : Begin(t, row.id, row.token, 0, "absent?")

claimChannel(t) ==
  /\ t \in Claiming
  /\ \E promise \in signed :
       Begin(t, promise.id, promise.token, promise.amount, "claim")

\* channelState: two reads of the chain, and Impossible makes the call throw.
readAbsent(t) ==
  /\ step[t] = "absent?"
  /\ IF isAbsent(work[t].id)
     THEN Finish(t, "failed")
     ELSE Goto(t, "settling?") /\ UNCHANGED <<work, receipt>>
  /\ UNCHANGED <<vars, mempool, rows>>

readSettling(t) ==
  /\ step[t] = "settling?"
  /\ Goto(t, IF isSettling(work[t].id) THEN "settle" ELSE "startSettling")
  /\ UNCHANGED <<vars, work, receipt, mempool, rows>>

approved_NotAwaited(t) == step[t] = "approving"
approved(t) == step[t] = "approving" /\ receipt[t] # "none"

proceed(t) ==
  /\ approved(t)
  /\ Goto(t, IF t \in Opening THEN "open" ELSE "deposit")
  /\ UNCHANGED <<vars, work, receipt, mempool, rows>>

\* buildChannel returned, whatever the receipt says: the row is written.
saveOpened(t) ==
  /\ step[t] = "opening" /\ receipt[t] # "none"
  /\ rows' = rows \cup {[id |-> work[t].id, token |-> work[t].token]}
  /\ Finish(t, "done")
  /\ UNCHANGED <<vars, mempool>>

complete_OnSuccess(t) ==
  /\ step[t] \in Waiting \ {"approving", "opening"} /\ receipt[t] = "success"
  /\ Finish(t, "done")
  /\ UNCHANGED <<vars, mempool, rows>>
complete(t) ==
  /\ step[t] \in Waiting \ {"approving", "opening"} /\ receipt[t] # "none"
  /\ Finish(t, "done")
  /\ UNCHANGED <<vars, mempool, rows>>

\* waitForTransactionReceipt gives up after 45 seconds.
timeout(t) ==
  /\ "timeout" \in Faults
  /\ step[t] \in Waiting
  /\ Finish(t, "failed")
  /\ UNCHANGED <<vars, mempool, rows>>

\* nextPayment: only for a channel that has a row and covers the amount.
signPayment(row, amount) ==
  /\ Cardinality(signed) < MaxPromises
  /\ isPresent(row.id) /\ amount <= channels[row.id].value
  /\ Sign(Payer, row.id, amount, row.token)
  /\ UNCHANGED calls

CallStep(t) ==
  \/ callApprove(t)
  \/ callOpen(t)
  \/ callDeposit(t)
  \/ callStartSettling(t)
  \/ callSettle(t)
  \/ callClaim(t)
  \/ readAbsent(t)
  \/ readSettling(t)
  \/ proceed(t)
  \/ saveOpened(t)
  \/ complete(t)

CallsNext ==
  \/ \E t \in Call : \/ openChannel(t)
                     \/ depositInto(t)
                     \/ closeChannel(t)
                     \/ claimChannel(t)
                     \/ CallStep(t)
                     \/ timeout(t)
  \/ \E account \in {Payer, Payee} : Execute(account)
  \/ \E row \in rows, amount \in Promise : signPayment(row, amount)
  \/ Mine /\ UNCHANGED calls

CallsSpec == Init /\ CallsInit /\ [][CallsNext]_all

(* The node mines what it was sent, and a call whose turn it is goes on.    *)
FairCalls ==
  /\ CallsSpec
  /\ \A account \in {Payer, Payee} : WF_all(Execute(account))
  /\ \A t \in Call : WF_all(CallStep(t))
-----------------------------------------------------------------------------
(* Properties. *)

(* With one call of the payer at a time, when a call is about to open or    *)
(* deposit, the contract may take from the payer exactly what that call is  *)
(* for: an allowance an earlier call left behind, because it was refused or *)
(* its receipts came too late, has been replaced and not added to.          *)
AllowanceIsExact ==
  \A t \in Active : step[t] \in {"open", "deposit"} =>
    allowance[work[t].token][Payer] = work[t].value

(* With one call of the payer at a time, opening and depositing are refused *)
(* only for a reason: the payer has too few tokens, asks for nothing, or    *)
(* the channel is no longer open.  No order of approvals, late receipts and *)
(* pending transactions makes a good call fail.                             *)
RefusedForAReason ==
  [][\A t \in Active :
       (step[t] \in {"open", "deposit"} /\ step'[t] = "failed") =>
         \/ held[work[t].token][Payer] < work[t].value
         \/ work[t].value = 0
         \/ t \in Topping /\ ~isOpen(work[t].id)]_all

(* No caller reads the status of a receipt. Even so, with one call of the   *)
(* payer at a time, a row is written only of a channel that was opened with *)
(* the parties, token and value asked for, and any other call that returns  *)
(* had its effect, unless the channel was closed first or an announcement   *)
(* whose receipt came too late had been mined before.                       *)
Returns(t) == step[t] \in Waiting /\ step'[t] = "done"
ReturnsAreReal ==
  [][\A t \in Call : Returns(t) =>
       IF t \in Opening
       THEN /\ channels[work[t].id].sender = Payer
            /\ channels[work[t].id].receiver = Payee
            /\ channels[work[t].id].value = work[t].value
            /\ channels[work[t].id].tokenContract = work[t].token
       ELSE receipt[t] = "reverted" =>
              \/ isAbsent(work[t].id)
              \/ step[t] = "announcing" /\ isSettling(work[t].id)]_all

(* Every call returns or throws: no receipt and no key is waited for in     *)
(* vain.                                                                    *)
EveryTokenCallEnds == \A t \in Call : step[t] # "idle" ~> step[t] \in Over
=============================================================================
