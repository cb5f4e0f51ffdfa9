---------------------------- MODULE PaymentNetwork ----------------------------
(***************************************************************************)
(* What the sender's and the receiver's process share: the chain, which is *)
(* the abstract lifecycle that the contract implements, and one HTTP       *)
(* exchange per purchase (packages/iohtee/src/transport.ts, doPayment).    *)
(* A call is one call of the library's API by the application, made once.  *)
(***************************************************************************)
EXTENDS ChannelStore, FiniteSets, Functions

CONSTANTS
  Id,            \* channel ids
  Purchase,      \* calls of IohTee.buy
  Opening,       \* calls of IohTee.open
  Deposit,       \* calls of IohTee.deposit
  Closing,       \* calls of IohTee.close by the sender
  Claim,         \* calls of IohTee.close by the receiver
  Price,         \* options.price of each purchase, the value of each opening
  Extra,         \* value of each deposit
  Sender, Receiver, Nobody,
  Endowment,     \* money of the two accounts
  MinDeposit,    \* options.minimumChannelAmount
  SettlementPeriod, MinSettlementPeriod,   \* options of the two
  CloseOnInvalidPayment,
  ReceiverEngine,  \* the receiver's database: "sqlite" or "postgresql"
  MaxInFlight,   \* purchases the application has under way at once
  Faults,        \* which of "lost", "refused", "timeout", "crash" may happen
  NoId, NoPayment, Default

Account == {Sender, Receiver}

ASSUME CallAssumption ==
  /\ Purchase \cap (Opening \cup Deposit \cup Closing \cup Claim) = {}
  /\ Default \notin Id
  /\ Price \in [Purchase \cup Opening -> Nat \ {0}]
  /\ Extra \in [Deposit -> Nat \ {0}]
  /\ Endowment \in [Account -> Nat]
  /\ MinDeposit \in Nat
  /\ SettlementPeriod \in Nat \ {0} /\ MinSettlementPeriod \in Nat
  /\ ReceiverEngine \in {"sqlite", "postgresql"}
  /\ Faults \subseteq {"lost", "refused", "timeout", "crash"}

VARIABLES
  phase, parties, escrow, purse, promised,   \* the chain: ChannelLifecycle
  payment,   \* the payment each purchase has built, or NoPayment
  wire       \* its exchange: "idle", "request", "token", "error" or "lost"

chain == <<phase, parties, escrow, purse, promised>>

Chain == INSTANCE ChannelLifecycle WITH Promise <- Nat

\* Unidirectional.channelState
channelState(id) == IF phase[id] = "none" THEN Settled
                    ELSE IF phase[id] = "open" THEN Open
                    ELSE Settling

\* A row as it is read: with the value and the state the chain has.
inflate(row) == [row EXCEPT !.value = escrow[row.id], !.state = channelState(row.id)]
inflatePaymentChannels(raw) == {inflate(row) : row \in raw}
filterByState(state, found) == {row \in found : row.state = state}

\* What IohTee.channels, openChannels and settlingChannels list.
all(rows) == inflatePaymentChannels(Range(rows))
allOpen(rows) ==
  filterByState(Open, inflatePaymentChannels(filterByState(Open, Range(rows))))
allSettling(rows) == filterByState(Settling, all(rows))

\* The chain's record is never null, so a row once found is always inflated.
findBySenderReceiverChannelId(rows, p) ==
  {row \in all(rows) : row.id = payment[p].id}

\* canClaim: every promise is signed by the sender before it is sent.
canClaim(p) == phase[p.id] # "none" /\ [signer |-> Sender, id |-> p.id,
                                        amount |-> p.value] \in promised

getSettlementPeriod(id) == IF phase[id] = "none" THEN 0 ELSE SettlementPeriod

NetworkInit ==
  /\ Chain!Init
  /\ payment = [p \in Purchase |-> NoPayment]
  /\ wire = [p \in Purchase |-> "idle"]

\* Blocks pass: settling periods end.
Expire == /\ \E ids \in SUBSET Id : Chain!Expire(ids)
          /\ UNCHANGED <<payment, wire>>

\* Set the exchange of p, unless its sender no longer waits for it.
Answer(p, answer) ==
  wire' = [wire EXCEPT ![p] = IF @ = "request" THEN answer ELSE @]
=============================================================================
