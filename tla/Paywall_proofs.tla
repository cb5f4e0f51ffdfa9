----------------------------- MODULE Paywall_proofs -----------------------------
(***************************************************************************)
(* What holds of buying content over HTTP, for every set of visitors, of   *)
(* sites and of clients, every time to live and every payment.             *)
(*                                                                         *)
(* First the conversions of module Wire: a payment that is read is the one *)
(* that was written, and a row of table payment keeps what a claim needs.  *)
(* Then the inductive invariant: TypeOK; Messages, what is on its way to   *)
(* each visitor says what its place promises; and Tokens, what the tables  *)
(* say of each token is backed by the table before it, from the token a    *)
(* visitor holds, through the playground's memory of it and the gateway's  *)
(* table of tokens, to the payment.                                        *)
(***************************************************************************)
EXTENDS Paywall, TLAPS

USE DEF Token

-----------------------------------------------------------------------------
(* What the conversions keep. *)

IsPayment(p) ==
  /\ p = [channelId |-> p.channelId, sender |-> p.sender, receiver |-> p.receiver,
          price |-> p.price, value |-> p.value, channelValue |-> p.channelValue,
          signature |-> p.signature, meta |-> p.meta, token |-> p.token,
          createdAt |-> p.createdAt, tokenContract |-> p.tokenContract]
  /\ p.signature = <<p.signature[1], p.signature[2], p.signature[3]>>

(* JSON drops a field that is undefined, and a field that is not there is  *)
(* undefined: whoever asks for one field gets the same (JSON.stringify).    *)
LEMMA JsonKeepsFields ==
  ASSUME NEW m, NEW f
  PROVE  /\ Field(Json(m), f) = Field(m, f)
         /\ f \in DOMAIN Json(m) => f \in DOMAIN m /\ Json(m)[f] = m[f]
BY DEF Json, Field

(* Every payment has the fields of a payment.                              *)
LEMMA PaymentsAreWhole ==
  ASSUME NEW v \in Visitor
  PROVE  /\ IsPayment(PaymentBy[v])
         /\ \A time \in 1 .. MaxNow :
              LET row == insertPayment(v, PaymentBy[v], time)
              IN row # Undefined /\ inflatePayment(row) # Unreadable
BY ValuesAssumption DEF IsPayment

(* PaymentSerde.deserialize after PaymentSerde.serialize, over JSON: the   *)
(* payment, or the error that a field is missing.                          *)
LEMMA PaymentsAreRead ==
  ASSUME NEW p, IsPayment(p), required \subseteq DOMAIN Json(serializePayment(p))
  PROVE  deserializePayment(Json(serializePayment(p))) = p
<1> DEFINE data == Json(serializePayment(p))
           s == serializePayment(p)
<1>1. /\ s.channelId = p.channelId /\ s.value = Text(p.value)
      /\ s.sender = p.sender /\ s.receiver = p.receiver
      /\ s.price = Text(p.price) /\ s.channelValue = Text(p.channelValue)
      /\ s.v = p.signature[1] /\ s.r = p.signature[2] /\ s.s = p.signature[3]
  BY DEF serializePayment, toParts
<1>2. /\ Field(s, "meta") = p.meta /\ Field(s, "token") = p.token
      /\ Field(s, "createdAt") = p.createdAt
      /\ Field(s, "tokenContract") = p.tokenContract
  BY DEF serializePayment, Field
<1>3. \A f \in required : data[f] = s[f]
  BY JsonKeepsFields
<1>4. \A f : Field(data, f) = Field(s, f)
  BY JsonKeepsFields
<1>5. /\ data.channelId = p.channelId /\ data.value = Text(p.value)
      /\ data.sender = p.sender /\ data.receiver = p.receiver
      /\ data.price = Text(p.price) /\ data.channelValue = Text(p.channelValue)
      /\ data.v = p.signature[1] /\ data.r = p.signature[2] /\ data.s = p.signature[3]
  BY <1>1, <1>3 DEF required
<1>6. fromParts(data) = p.signature
  BY <1>5 DEF fromParts, IsPayment
<1>7. /\ BigInt(data.price) = p.price /\ BigInt(data.value) = p.value
      /\ BigInt(data.channelValue) = p.channelValue
  BY <1>5 DEF BigInt, Text
<1> HIDE DEF data, s
<1>8. deserializePayment(data) =
       [channelId |-> p.channelId, sender |-> p.sender, receiver |-> p.receiver,
        price |-> p.price, value |-> p.value, channelValue |-> p.channelValue,
        signature |-> p.signature, meta |-> p.meta, token |-> p.token,
        createdAt |-> p.createdAt, tokenContract |-> p.tokenContract]
  <2>1. required \subseteq DOMAIN data
    BY DEF data
  <2> QED
    BY <1>2, <1>4, <1>5, <1>6, <1>7, <2>1 DEF deserializePayment
<1> QED
  BY <1>8 DEF IsPayment, data

(* A payment with another token contract is the same payment otherwise.    *)
LEMMA PaymentsChangeContract ==
  ASSUME NEW p, IsPayment(p), NEW contract
  PROVE  LET q == [p EXCEPT !.tokenContract = contract] IN
         /\ q = [channelId |-> p.channelId, sender |-> p.sender, receiver |-> p.receiver,
                 price |-> p.price, value |-> p.value, channelValue |-> p.channelValue,
                 signature |-> p.signature, meta |-> p.meta, token |-> p.token,
                 createdAt |-> p.createdAt, tokenContract |-> contract]
         /\ IsPayment(q)
<1> DEFINE Made(a, b, c, d, e, f, g, h, i, j, k) ==
             [channelId |-> a, sender |-> b, receiver |-> c, price |-> d, value |-> e,
              channelValue |-> f, signature |-> g, meta |-> h, token |-> i,
              createdAt |-> j, tokenContract |-> k]
           q == [p EXCEPT !.tokenContract = contract]
<1>1. ASSUME NEW a, NEW b, NEW c, NEW d, NEW e, NEW f, NEW g, NEW h, NEW i, NEW j, NEW k
      PROVE  [Made(a, b, c, d, e, f, g, h, i, j, k) EXCEPT !.tokenContract = contract]
               = Made(a, b, c, d, e, f, g, h, i, j, contract)
  OBVIOUS
<1>2. /\ p = Made(p.channelId, p.sender, p.receiver, p.price, p.value, p.channelValue,
                  p.signature, p.meta, p.token, p.createdAt, p.tokenContract)
      /\ p.signature = <<p.signature[1], p.signature[2], p.signature[3]>>
  BY DEF IsPayment
<1> HIDE DEF Made
<1>3. q = Made(p.channelId, p.sender, p.receiver, p.price, p.value, p.channelValue,
               p.signature, p.meta, p.token, p.createdAt, contract)
  <2> DEFINE m == Made(p.channelId, p.sender, p.receiver, p.price, p.value, p.channelValue,
                       p.signature, p.meta, p.token, p.createdAt, p.tokenContract)
             n == Made(p.channelId, p.sender, p.receiver, p.price, p.value, p.channelValue,
                       p.signature, p.meta, p.token, p.createdAt, contract)
  <2>1. [m EXCEPT !.tokenContract = contract] = n
    BY <1>1
  <2>2. p = m
    BY <1>2
  <2> HIDE DEF m, n
  <2>3. q = n
    BY <2>1, <2>2
  <2> QED
    BY <2>3 DEF n
<1> HIDE DEF q
<1>4. /\ q.channelId = p.channelId /\ q.sender = p.sender /\ q.receiver = p.receiver
      /\ q.price = p.price /\ q.value = p.value /\ q.channelValue = p.channelValue
      /\ q.signature = p.signature /\ q.meta = p.meta /\ q.token = p.token
      /\ q.createdAt = p.createdAt /\ q.tokenContract = contract
  BY <1>3 DEF Made
<1>5. q = Made(q.channelId, q.sender, q.receiver, q.price, q.value, q.channelValue,
               q.signature, q.meta, q.token, q.createdAt, q.tokenContract)
  BY <1>3, <1>4, Zenon
<1>6. q.signature = <<q.signature[1], q.signature[2], q.signature[3]>>
  BY <1>2, <1>4, Zenon
<1>7. IsPayment(q)
  BY <1>5, <1>6 DEF IsPayment, Made
<1> QED
  BY <1>3, <1>7 DEF Made, q

(* PaymentsDatabase.save, then inflate: the payment with its token and its *)
(* date, without the token contract, whose column is never written.        *)
LEMMA RowsAreRead ==
  ASSUME NEW p, IsPayment(p), NEW token, NEW time
  PROVE  inflatePayment(insertPayment(token, p, time)) =
           [channelId |-> p.channelId, sender |-> p.sender, receiver |-> p.receiver,
            price |-> p.price, value |-> p.value, channelValue |-> p.channelValue,
            signature |-> p.signature, meta |-> p.meta, token |-> token,
            createdAt |-> time, tokenContract |-> Undefined]
<1> DEFINE row == insertPayment(token, p, time)
           s == serializePayment(p)
<1>1. /\ DOMAIN row = (DOMAIN s \ {"tokenContract"}) \cup {"contractAddress"}
      /\ DOMAIN s = required \cup {"token", "meta", "createdAt", "tokenContract"}
  BY DEF insertPayment, serializePayment, required
<1>2. \A f \in DOMAIN row \ {"token", "createdAt"} : row[f] = Field(s, f)
  BY DEF insertPayment
<1>3. /\ Field(s, "channelId") = p.channelId /\ Field(s, "value") = Text(p.value)
      /\ Field(s, "sender") = p.sender /\ Field(s, "receiver") = p.receiver
      /\ Field(s, "price") = Text(p.price) /\ Field(s, "channelValue") = Text(p.channelValue)
      /\ Field(s, "v") = p.signature[1] /\ Field(s, "r") = p.signature[2]
      /\ Field(s, "s") = p.signature[3] /\ Field(s, "meta") = p.meta
  BY DEF serializePayment, toParts, Field
<1>4. /\ row["token"] = token /\ row["createdAt"] = time
  BY <1>1 DEF insertPayment
<1> HIDE DEF row, s
<1>5. /\ row.channelId = p.channelId /\ row.value = Text(p.value)
      /\ row.sender = p.sender /\ row.receiver = p.receiver
      /\ row.price = Text(p.price) /\ row.channelValue = Text(p.channelValue)
      /\ row.v = p.signature[1] /\ row.r = p.signature[2]
      /\ row.s = p.signature[3] /\ row.meta = p.meta
  BY <1>1, <1>2, <1>3 DEF required
<1>6. /\ Field(row, "meta") = p.meta /\ Field(row, "token") = token
      /\ Field(row, "createdAt") = time /\ Field(row, "tokenContract") = Undefined
  BY <1>1, <1>4, <1>5 DEF Field, required
<1>7. /\ fromParts(row) = p.signature
      /\ BigInt(row.price) = p.price /\ BigInt(row.value) = p.value
      /\ BigInt(row.channelValue) = p.channelValue
  BY <1>5 DEF fromParts, IsPayment, BigInt, Text
<1>8. deserializePayment(row) =
       [channelId |-> p.channelId, sender |-> p.sender, receiver |-> p.receiver,
        price |-> p.price, value |-> p.value, channelValue |-> p.channelValue,
        signature |-> p.signature, meta |-> p.meta, token |-> token,
        createdAt |-> time, tokenContract |-> Undefined]
  <2>1. required \subseteq DOMAIN row
    BY <1>1 DEF required
  <2> QED
    BY <1>5, <1>6, <1>7, <2>1 DEF deserializePayment
<1> QED
  BY <1>8 DEF inflatePayment, row
-----------------------------------------------------------------------------
(* The invariant. *)

\* What is sent or stored has no type of its own, but there is a place for it.
Tables == DOMAIN reply = Visitor /\ DOMAIN ledger = Token

\* What the gateway will read of what v has sent is v's payment, or nothing.
IsSent(v) ==
  LET payment == deserializePaymentRequest(reply[v]) IN
  \/ payment = Unreadable
  \/ payment = [PaymentBy[v] EXCEPT !.tokenContract = payment.tokenContract]

\* A token in an answer has been issued by the gateway that was paid.
IsAnswered(v) ==
  \/ reply[v] = serializePaymentResponse(v) /\ issued[v] = GatewayOf(via[v])
  \/ reply[v] = [error |-> "refused"]

MessageOf(v) ==
  /\ at[v] \in {"forwarding", "forwarded"} => via[v] = "playground"
  /\ at[v] \in {"paying", "forwarding"} => IsSent(v)
  /\ at[v] \in {"paid", "forwarded"} => IsAnswered(v)
  /\ at[v] \in {"asking", "verifying", "verified", "doubted"} =>
       asks[v] \in Token /\ issued[asks[v]] # Undefined
  /\ at[v] = "verifying" => reply[v] = serializeTokenRequest(asks[v])
  /\ at[v] = "verified" =>
       reply[v] = serializeTokenResponse(issued[asks[v]] = GatewayOf(via[v]))
  /\ at[v] = "doubted" => reply[v] = serializeTokenResponse(FALSE)

Messages == \A v \in Visitor : MessageOf(v)

\* The playground remembers a token for TTL from when it last heard of it,
\* which is after the hub has issued it, which is with its payment.
TokenOf(t) ==
  /\ bought[t] # Undefined => issued[bought[t]] # Undefined
  /\ stored[t] # Undefined =>
       confirmed[t] # Undefined /\ stored[t] = confirmed[t] + TTL
  /\ confirmed[t] # Undefined => confirmed[t] <= now /\ issued[t] = "hub"
  /\ issued[t] # Undefined => Redeemable(t)

Tokens == \A t \in Token : TokenOf(t)

Inv == TypeOK /\ Tables /\ Messages /\ Tokens

LEMMA InitInv == Init => Inv
<1> SUFFICES ASSUME Init PROVE Inv
  OBVIOUS
<1> USE PaywallAssumption, ValuesAssumption
<1>1. TypeOK
  BY DEF Init, TypeOK, Place, Over
<1>2. Messages
  BY DEF Init, Messages, MessageOf
<1>3. Tokens
  BY DEF Init, Tokens, TokenOf
<1>4. Tables
  BY DEF Init, Tables
<1> QED
  BY <1>1, <1>2, <1>3, <1>4 DEF Inv

(* What a message that is read gives back.                                 *)
LEMMA AnswersAreRead ==
  /\ \A t \in Token : deserializeTokenRequest(serializeTokenRequest(t)) = t
  /\ \A t \in Token : LET token == deserializePaymentResponse(serializePaymentResponse(t))
                      IN token = t /\ Field(serializePaymentResponse(t), "token") = t
  /\ LET refusal == [error |-> "refused"]
     IN /\ deserializePaymentResponse(refusal) = Unreadable
        /\ Field(refusal, "token") = Undefined
BY ValuesAssumption DEF deserializeTokenRequest, serializeTokenRequest, Field,
   deserializePaymentResponse, serializePaymentResponse

LEMMA StatusIsRead ==
  ASSUME NEW b \in BOOLEAN
  PROVE  deserializeTokenResponse(serializeTokenResponse(b)) = b
<1>1. b # Undefined
  BY ValuesAssumption
<1>2. Field([status |-> b], "status") = b
  BY DEF Field
<1> QED
  BY <1>1, <1>2 DEF deserializeTokenResponse, serializeTokenResponse

(* The gateway reads the payment that was sent, or nothing.                *)
LEMMA RequestsAreRead ==
  ASSUME NEW v \in Visitor, NEW contract, NEW purchaseMeta,
         NEW payment, payment = [PaymentBy[v] EXCEPT !.tokenContract = contract],
         NEW read,
         read = deserializePaymentRequest(Json(serializePaymentRequest(payment, purchaseMeta)))
  PROVE  read = Unreadable \/ (read = payment /\ payment.tokenContract = contract)
<1> DEFINE whole == serializePaymentRequest(payment, purchaseMeta)
           inner == Json(serializePayment(payment))
<1> SUFFICES ASSUME read # Unreadable
             PROVE  read = payment /\ payment.tokenContract = contract
  OBVIOUS
<1>1. IsPayment(payment) /\ payment.tokenContract = contract
  <2> DEFINE p == PaymentBy[v]
  <2>1. IsPayment(p)
    BY PaymentsAreWhole
  <2>2. /\ payment = [channelId |-> p.channelId, sender |-> p.sender, receiver |-> p.receiver,
                 price |-> p.price, value |-> p.value, channelValue |-> p.channelValue,
                 signature |-> p.signature, meta |-> p.meta, token |-> p.token,
                 createdAt |-> p.createdAt, tokenContract |-> contract]
        /\ IsPayment(payment)
    BY <2>1, PaymentsChangeContract
  <2> HIDE DEF p
  <2>3. payment.tokenContract = contract
    BY <2>2
  <2> QED
    BY <2>2, <2>3
<1>2. /\ Field(Json(whole), "payment") # Undefined
      /\ read = deserializePayment(Json(whole).payment)
  BY DEF deserializePaymentRequest
<1>3. Json(whole).payment = inner
  <2>1. "payment" \in DOMAIN Json(whole)
    BY <1>2 DEF Field
  <2>2. Json(whole)["payment"] = whole["payment"]
    BY <2>1, JsonKeepsFields
  <2>3. whole["payment"] = inner
    BY DEF serializePaymentRequest
  <2> QED
    BY <2>2, <2>3
<1>4. required \subseteq DOMAIN inner
  BY <1>2, <1>3 DEF deserializePayment
<1>5. deserializePayment(inner) = payment
  BY <1>1, <1>4, PaymentsAreRead
<1> QED
  BY <1>1, <1>2, <1>3, <1>5

(* What the gateway stores is what will be claimed with: the row of a      *)
(* payment is readable and keeps what was signed.                          *)
LEMMA RowsAreRedeemable ==
  ASSUME NEW v \in Visitor, NEW time \in 1 .. MaxNow, NEW contract,
         NEW payment, payment = [PaymentBy[v] EXCEPT !.tokenContract = contract],
         NEW row, row = insertPayment(v, payment, time)
  PROVE  /\ row # Undefined /\ inflatePayment(row) # Unreadable
         /\ \A f \in {"channelId", "sender", "receiver", "value", "signature"} :
              inflatePayment(row)[f] = PaymentBy[v][f]
<1> DEFINE p == PaymentBy[v]
<1>1. IsPayment(p) /\ IsPayment(payment)
  BY PaymentsAreWhole, PaymentsChangeContract
<1>2. /\ payment.channelId = p.channelId /\ payment.sender = p.sender
      /\ payment.receiver = p.receiver /\ payment.value = p.value
      /\ payment.signature = p.signature /\ payment.price = p.price
      /\ payment.channelValue = p.channelValue /\ payment.meta = p.meta
      /\ payment.token = p.token /\ payment.createdAt = p.createdAt
  <2>1. payment = [channelId |-> p.channelId, sender |-> p.sender, receiver |-> p.receiver,
                 price |-> p.price, value |-> p.value, channelValue |-> p.channelValue,
                 signature |-> p.signature, meta |-> p.meta, token |-> p.token,
                 createdAt |-> p.createdAt, tokenContract |-> contract]
    BY <1>1, PaymentsChangeContract
  <2> HIDE DEF p
  <2> QED
    BY <2>1
<1>3. insertPayment(v, payment, time) = insertPayment(v, p, time)
  <2> DEFINE s == serializePayment(payment)
             u == serializePayment(p)
  <2>1. DOMAIN s = DOMAIN u
    BY DEF serializePayment
  <2>2. \A f \in DOMAIN s \ {"tokenContract"} : s[f] = u[f]
    BY <1>2 DEF serializePayment, toParts
  <2>3. ~("contractAddress" \in DOMAIN s)
    BY DEF serializePayment
  <2> HIDE DEF s, u
  <2>4. \A f \in (DOMAIN s \ {"tokenContract"}) \cup {"contractAddress"} :
          Field(s, f) = Field(u, f)
    BY <2>1, <2>2, <2>3 DEF Field
  <2> QED
    BY <2>1, <2>4 DEF insertPayment, s, u
<1>4. row # Undefined /\ inflatePayment(row) # Unreadable
  BY <1>3, PaymentsAreWhole
<1>5. inflatePayment(row) =
           [channelId |-> p.channelId, sender |-> p.sender, receiver |-> p.receiver,
            price |-> p.price, value |-> p.value, channelValue |-> p.channelValue,
            signature |-> p.signature, meta |-> p.meta, token |-> v,
            createdAt |-> time, tokenContract |-> Undefined]
  BY <1>1, <1>3, RowsAreRead
<1> HIDE DEF p
<1>6. LET read == inflatePayment(row) IN
      \A f \in {"channelId", "sender", "receiver", "value", "signature"} : read[f] = p[f]
  BY <1>5
<1> QED
  BY <1>4, <1>6 DEF p

-----------------------------------------------------------------------------
(* Every step keeps the types. *)

\* A visit that ends leaves nothing but its place.
LEMMA EndTypes ==
  ASSUME TypeOK, NEW v \in Visitor, NEW how \in Over, End(v, how)
  PROVE  /\ at' \in [Visitor -> Place] /\ via' \in [Visitor -> Site \cup {Undefined}]
         /\ asks' \in [Visitor -> Token \cup {Undefined}]
BY DEF TypeOK, Goto, End, Place

LEMMA TypeInvariance == Inv /\ [Next]_vars => TypeOK'
<1> SUFFICES ASSUME Inv, [Next]_vars PROVE TypeOK'
  OBVIOUS
<1> USE PaywallAssumption, ValuesAssumption
<1>0. TypeOK /\ Tables /\ Messages /\ Tokens
  BY DEF Inv
<1>1. ASSUME NEW v \in Visitor, visit(v) PROVE TypeOK'
  <2>1. PICK client \in Client, site \in Site :
          LET headers == challengeHeaders(site) IN
          IF Understands(client, headers)
          THEN /\ Goto(v, "buy")
               /\ via' = [via EXCEPT ![v] = site]
               /\ reply' = [reply EXCEPT ![v] = TermsRead(client, headers)]
               /\ UNCHANGED asks
          ELSE End(v, "failed")
    BY <1>1 DEF visit
  <2>2. /\ at' \in [Visitor -> Place] /\ via' \in [Visitor -> Site \cup {Undefined}]
        /\ asks' \in [Visitor -> Token \cup {Undefined}]
    <3>1. CASE Goto(v, "buy") /\ via' = [via EXCEPT ![v] = site] /\ UNCHANGED asks
      BY <1>0, <3>1 DEF TypeOK, Goto, Place
    <3>2. CASE End(v, "failed")
      BY <1>0, <3>2, EndTypes DEF Over
    <3> QED BY <2>1, <3>1, <3>2
  <2>3. visits' \in [Visitor -> 0 .. MaxVisits]
    BY <1>0, <1>1 DEF visit, TypeOK
  <2>4. UNCHANGED <<now, stored, confirmed, issued, ledger, bought>>
    BY <1>1 DEF visit, gateway, playground
  <2> QED
    BY <1>0, <2>2, <2>3, <2>4 DEF TypeOK
<1>2. ASSUME NEW v \in Visitor, doPreflight(v) PROVE TypeOK'
  <2>1. PICK how \in Over : End(v, how)
    <3>1. {"away", "failed"} \subseteq Over
      BY DEF Over
    <3> QED BY <1>2, <3>1 DEF doPreflight
  <2>2. /\ at' \in [Visitor -> Place] /\ via' \in [Visitor -> Site \cup {Undefined}]
        /\ asks' \in [Visitor -> Token \cup {Undefined}]
    BY <1>0, <2>1, EndTypes
  <2>3. visits' \in [Visitor -> 0 .. MaxVisits]
    BY <1>0, <1>2 DEF doPreflight, TypeOK
  <2>4. UNCHANGED <<now, stored, confirmed, issued, ledger, bought>>
    BY <1>2 DEF doPreflight, gateway, playground
  <2> QED
    BY <1>0, <2>2, <2>3, <2>4 DEF TypeOK
<1>3. ASSUME NEW v \in Visitor, ask(v) PROVE TypeOK'
  <2>1. /\ at' \in [Visitor -> Place] /\ via' \in [Visitor -> Site \cup {Undefined}]
        /\ asks' \in [Visitor -> Token \cup {Undefined}]
    BY <1>0, <1>3 DEF ask, TypeOK, Goto, Place, AtSite
  <2>2. visits' \in [Visitor -> 0 .. MaxVisits]
    BY <1>0, <1>3 DEF ask, TypeOK
  <2> QED
    BY <1>0, <1>3, <2>1, <2>2 DEF ask, TypeOK, gateway, playground
<1>4. ASSUME NEW v \in Visitor, lose(v) PROVE TypeOK'
  BY <1>0, <1>4 DEF lose, End, Goto, TypeOK, Place, Over, gateway, playground
<1>5. ASSUME NEW v \in Visitor, doPayment(v) PROVE TypeOK'
  BY <1>0, <1>5 DEF doPayment, Goto, TypeOK, Place, AtSite, gateway, playground
<1>6. ASSUME NEW v \in Visitor, Accept(v) PROVE TypeOK'
  BY <1>0, <1>6 DEF Accept, accepted, GatewayOf, Gateway, Goto, TypeOK, Place, AtSite,
     gateway, playground
<1>7. ASSUME NEW v \in Visitor, forwardAcceptPayment(v) PROVE TypeOK'
  <2>1. IsAnswered(v)
    BY <1>0, <1>7 DEF forwardAcceptPayment, Messages, MessageOf
  <2>2. Field(reply[v], "token") \in {v, Undefined}
    BY <2>1, AnswersAreRead DEF IsAnswered
  <2> QED
    BY <1>0, <1>7, <2>2 DEF forwardAcceptPayment, remember, Goto, TypeOK, Place,
       gateway, playground
<1>8. ASSUME NEW v \in Visitor, didSendPayment(v) PROVE TypeOK'
  <2>1. IsAnswered(v)
    BY <1>0, <1>8 DEF didSendPayment, Messages, MessageOf
  <2>2. deserializePaymentResponse(reply[v]) \in {v, Unreadable}
    BY <2>1, AnswersAreRead DEF IsAnswered
  <2>3. bought' \in [Visitor -> Token \cup {Undefined}]
    BY <1>0, <1>8, <2>2 DEF didSendPayment, TypeOK
  <2>4. End(v, "failed") \/ End(v, "away")
    BY <1>8 DEF didSendPayment
  <2>5. /\ at' \in [Visitor -> Place] /\ via' \in [Visitor -> Site \cup {Undefined}]
        /\ asks' \in [Visitor -> Token \cup {Undefined}]
    BY <1>0, <2>4, EndTypes DEF Over
  <2> QED
    BY <1>0, <1>8, <2>3, <2>5 DEF didSendPayment, TypeOK, gateway, playground
<1>9. ASSUME NEW v \in Visitor, handle(v) \/ content(v) \/ tokenContent(v) PROVE TypeOK'
  BY <1>0, <1>9 DEF handle, content, tokenContent, verifyTokenWithGateway, End, Goto, TypeOK,
     Place, Over, AtSite, gateway, playground
<1>10. ASSUME NEW v \in Visitor, Verify(v) PROVE TypeOK'
  BY <1>0, <1>10 DEF Verify, Goto, TypeOK, Place, AtSite, gateway, playground
<1>11. ASSUME NEW v \in Visitor, resume(v) PROVE TypeOK'
  <2>1. asks[v] \in Token
    BY <1>0, <1>11 DEF resume, Messages, MessageOf
  <2>2. End(v, "served") \/ End(v, "invalid")
    BY <1>11 DEF resume
  <2>3. markVerified(asks[v]) \/ UNCHANGED playground
    BY <1>11 DEF resume
  <2>4. /\ stored' \in [Token -> Nat \cup {Undefined}]
        /\ confirmed' \in [Token -> (1 .. MaxNow) \cup {Undefined}]
    BY <1>0, <2>1, <2>3 DEF markVerified, remember, TypeOK, playground
  <2>5. /\ at' \in [Visitor -> Place] /\ via' \in [Visitor -> Site \cup {Undefined}]
        /\ asks' \in [Visitor -> Token \cup {Undefined}]
    BY <1>0, <2>2, EndTypes DEF Over
  <2> QED
    BY <1>0, <1>11, <2>4, <2>5 DEF resume, TypeOK, gateway
<1>12. ASSUME NEW v \in Visitor, resumeContent(v) \/ resumeTokenContent(v) PROVE TypeOK'
  <2>1. End(v, "served") \/ End(v, "unpaid")
    BY <1>12 DEF resumeContent, resumeTokenContent
  <2>2. /\ at' \in [Visitor -> Place] /\ via' \in [Visitor -> Site \cup {Undefined}]
        /\ asks' \in [Visitor -> Token \cup {Undefined}]
    BY <1>0, <2>1, EndTypes DEF Over
  <2> QED
    BY <1>0, <1>12, <2>2 DEF resumeContent, resumeTokenContent, TypeOK, gateway, playground
<1>13. ASSUME Tick PROVE TypeOK'
  BY <1>0, <1>13 DEF Tick, TypeOK, gateway, playground, visitor
<1>14. ASSUME restart PROVE TypeOK'
  BY <1>0, <1>14 DEF restart, TypeOK, Place, Over, gateway
<1>15. ASSUME cleanupExpired PROVE TypeOK'
  BY <1>0, <1>15 DEF cleanupExpired, TypeOK, gateway, visitor
<1>16. ASSUME UNCHANGED vars PROVE TypeOK'
  BY <1>0, <1>16 DEF vars, TypeOK, gateway, playground, visitor
<1> QED
  BY <1>1, <1>2, <1>3, <1>4, <1>5, <1>6, <1>7, <1>8, <1>9, <1>10, <1>11, <1>12, <1>13, <1>14,
     <1>15, <1>16
     DEF Next, Exchange, acceptPayment, acceptTokenPayment, acceptToken, acceptTokenToken

-----------------------------------------------------------------------------
(* Every step keeps what the messages say. *)

\* A gateway never takes a token back.
IssuedStays == \A t \in Token : issued[t] # Undefined =>
                 issued'[t] = issued[t] /\ ledger'[t] = ledger[t]

LEMMA GatewaysKeep == Inv /\ [Next]_vars => IssuedStays
<1> SUFFICES ASSUME Inv, [Next]_vars PROVE IssuedStays
  OBVIOUS
<1>1. issued \in [Token -> Gateway \cup {Undefined}] /\ DOMAIN ledger = Token
  BY DEF Inv, TypeOK, Tables
<1>2. ASSUME NEW v \in Visitor, Accept(v) PROVE IssuedStays
  BY <1>1, <1>2 DEF Accept, accepted, gateway, IssuedStays
<1>3. UNCHANGED gateway => IssuedStays
  BY DEF gateway, IssuedStays
<1> QED
  BY <1>2, <1>3 DEF Next, Exchange, acceptPayment, acceptTokenPayment, acceptToken,
     acceptTokenToken, visit, doPreflight, ask, lose, doPayment, forwardAcceptPayment,
     didSendPayment, handle, content, tokenContent, Verify, resume, resumeContent,
     resumeTokenContent, Tick, restart, cleanupExpired, vars

Rests(v) == at'[v] = at[v] /\ via'[v] = via[v] /\ asks'[v] = asks[v] /\ reply'[v] = reply[v]

(* A visitor nobody deals with keeps its message, and the message stays    *)
(* true.                                                                    *)
LEMMA MessageStays ==
  ASSUME NEW v \in Visitor, Inv, Rests(v), IssuedStays
  PROVE  MessageOf(v)'
<1>1. MessageOf(v)
  BY DEF Inv, Messages
<1>2. IsSent(v) => IsSent(v)'
  BY DEF IsSent, Rests
<1>3. IsAnswered(v) => IsAnswered(v)'
  <2>1. \A site : GatewayOf(site) # Undefined
    BY ValuesAssumption DEF GatewayOf, Gateway
  <2> QED
    BY <2>1 DEF IsAnswered, Rests, IssuedStays
<1>4. /\ at'[v] \in {"forwarding", "forwarded"} => via'[v] = "playground"
      /\ at'[v] \in {"paying", "forwarding"} => IsSent(v)'
      /\ at'[v] \in {"paid", "forwarded"} => IsAnswered(v)'
  BY <1>1, <1>2, <1>3 DEF MessageOf, Rests
<1>5. at'[v] \in {"asking", "verifying", "verified", "doubted"} =>
        asks'[v] \in Token /\ issued'[asks'[v]] # Undefined
  BY <1>1 DEF MessageOf, Rests, IssuedStays
<1>6. /\ at'[v] = "verifying" => reply'[v] = serializeTokenRequest(asks'[v])
      /\ at'[v] = "doubted" => reply'[v] = serializeTokenResponse(FALSE)
  BY <1>1 DEF MessageOf, Rests
<1>7. at'[v] = "verified" =>
        reply'[v] = serializeTokenResponse(issued'[asks'[v]] = GatewayOf(via'[v]))
  <2> SUFFICES ASSUME at'[v] = "verified"
               PROVE  reply'[v] = serializeTokenResponse(issued'[asks'[v]] = GatewayOf(via'[v]))
    OBVIOUS
  <2>1. /\ asks[v] \in Token /\ issued[asks[v]] # Undefined
        /\ reply[v] = serializeTokenResponse(issued[asks[v]] = GatewayOf(via[v]))
    BY <1>1 DEF MessageOf, Rests
  <2>2. issued'[asks'[v]] = issued[asks[v]] /\ via'[v] = via[v] /\ reply'[v] = reply[v]
    BY <2>1 DEF Rests, IssuedStays
  <2> QED
    BY <2>1, <2>2, Zenon
<1> QED
  BY <1>4, <1>5, <1>6, <1>7 DEF MessageOf

LEMMA MessageEnds ==
  ASSUME Inv, NEW v \in Visitor, NEW how \in Over, End(v, how)
  PROVE  MessageOf(v)' /\ \A w \in Visitor \ {v} : Rests(w)
<1>1. /\ at'[v] = how
      /\ \A w \in Visitor \ {v} : Rests(w)
  BY DEF Inv, TypeOK, Tables, End, Goto, Rests
<1> QED
  BY <1>1 DEF MessageOf, Over

\* The others rest while v moves on.
Keeps(v) == MessageOf(v)' /\ \A w \in Visitor \ {v} : Rests(w)

LEMMA MessagesInvariance == Inv /\ [Next]_vars => Messages'
<1> SUFFICES ASSUME Inv, [Next]_vars PROVE Messages'
  OBVIOUS
<1> USE PaywallAssumption, ValuesAssumption
<1>0. TypeOK /\ Tables /\ Messages /\ Tokens /\ IssuedStays
  BY GatewaysKeep DEF Inv
<1>a. \A v \in Visitor : Keeps(v) => Messages'
  BY <1>0, MessageStays DEF Keeps, Messages
<1>b. (\A v \in Visitor : Rests(v)) => Messages'
  BY <1>0, MessageStays DEF Messages
<1>1. ASSUME NEW v \in Visitor, visit(v) PROVE Keeps(v)
  <2>1. PICK client \in Client, site \in Site :
          LET headers == challengeHeaders(site) IN
          IF Understands(client, headers)
          THEN /\ Goto(v, "buy")
               /\ via' = [via EXCEPT ![v] = site]
               /\ reply' = [reply EXCEPT ![v] = TermsRead(client, headers)]
               /\ UNCHANGED asks
          ELSE End(v, "failed")
    BY <1>1 DEF visit
  <2>2. CASE End(v, "failed")
    BY <2>2, MessageEnds DEF Over, Keeps
  <2>3. CASE Goto(v, "buy") /\ UNCHANGED asks /\ via' = [via EXCEPT ![v] = site]
             /\ reply' = [reply EXCEPT ![v] = TermsRead(client, challengeHeaders(site))]
    BY <1>0, <2>3 DEF Keeps, Goto, TypeOK, Tables, Rests, MessageOf
  <2> QED
    BY <2>1, <2>2, <2>3
<1>2. ASSUME NEW v \in Visitor, doPreflight(v) PROVE Keeps(v)
  <2>1. PICK how \in {"away", "failed"} : End(v, how)
    BY <1>2 DEF doPreflight
  <2> QED
    BY <2>1, MessageEnds DEF Over, Keeps
<1>3. ASSUME NEW v \in Visitor, ask(v) PROVE Keeps(v)
  <2>1. PICK buyer \in Visitor : bought[buyer] # Undefined
                                 /\ asks' = [asks EXCEPT ![v] = bought[buyer]]
    BY <1>3 DEF ask
  <2>2. bought[buyer] \in Token /\ issued[bought[buyer]] # Undefined
    BY <1>0, <2>1 DEF TypeOK, Tables, Tokens, TokenOf
  <2>3. at'[v] = "asking" /\ asks'[v] = bought[buyer] /\ UNCHANGED issued
    BY <1>0, <1>3, <2>1 DEF ask, Goto, TypeOK, Tables, gateway
  <2>4. \A w \in Visitor \ {v} : Rests(w)
    BY <1>0, <1>3, <2>1 DEF ask, Goto, TypeOK, Tables, Rests
  <2> QED
    BY <2>2, <2>3, <2>4 DEF Keeps, MessageOf
<1>4. ASSUME NEW v \in Visitor, lose(v) PROVE Keeps(v)
  BY <1>4, MessageEnds DEF lose, Over, Keeps
<1>5. ASSUME NEW v \in Visitor, doPayment(v) PROVE Keeps(v)
  <2> DEFINE payment == [PaymentBy[v] EXCEPT !.tokenContract = reply[v].tokenContract]
  <2>1. PICK purchaseMeta \in PurchaseMeta :
          reply' = [reply EXCEPT ![v] = Json(serializePaymentRequest(payment, purchaseMeta))]
    BY <1>5 DEF doPayment
  <2>2. reply'[v] = Json(serializePaymentRequest(payment, purchaseMeta))
    BY <1>0, <1>5, <2>1 DEF Inv, TypeOK, Tables, doPayment
  <2>3. IsSent(v)'
    <3> DEFINE contract == reply[v].tokenContract
               read == deserializePaymentRequest(reply'[v])
    <3>1. payment = [PaymentBy[v] EXCEPT !.tokenContract = contract]
      OBVIOUS
    <3> HIDE DEF payment, contract, read
    <3>2. read = Unreadable \/ (read = payment /\ payment.tokenContract = contract)
      BY <2>2, <3>1, RequestsAreRead DEF read
    <3>3. read = Unreadable \/ read = [PaymentBy[v] EXCEPT !.tokenContract = read.tokenContract]
      BY <3>1, <3>2, Zenon
    <3> QED
      BY <3>3 DEF IsSent, read
  <2>4. /\ at'[v] \in {"paying", "forwarding"}
        /\ at'[v] = "forwarding" => via'[v] = "playground"
        /\ \A w \in Visitor \ {v} : Rests(w)
    BY <1>0, <1>5, <2>1 DEF TypeOK, Tables, doPayment, Goto, Rests
  <2> QED
    BY <2>3, <2>4 DEF Keeps, MessageOf
<1>6. ASSUME NEW v \in Visitor, Accept(v) PROVE Keeps(v)
  <2>1. \/ reply'[v] = serializePaymentResponse(v) /\ issued'[v] = GatewayOf(via[v])
        \/ reply'[v] = [error |-> "refused"]
    BY <1>0, <1>6 DEF Accept, accepted, TypeOK, Tables
  <2>2. /\ \/ at[v] = "paying" /\ at'[v] = "paid"
           \/ at[v] = "forwarding" /\ at'[v] = "forwarded"
        /\ via'[v] = via[v]
        /\ \A w \in Visitor \ {v} : Rests(w)
    BY <1>0, <1>6 DEF Accept, Goto, TypeOK, Tables, Rests
  <2>3. IsAnswered(v)'
    BY <2>1, <2>2 DEF IsAnswered
  <2>4. at'[v] = "forwarded" => via'[v] = "playground"
    BY <1>0, <2>2 DEF Messages, MessageOf
  <2> QED
    BY <2>2, <2>3, <2>4 DEF Keeps, MessageOf
<1>7. ASSUME NEW v \in Visitor, forwardAcceptPayment(v) PROVE Keeps(v)
  <2>1. /\ at[v] = "forwarded" /\ at'[v] = "paid" /\ via'[v] = via[v] /\ reply'[v] = reply[v]
        /\ issued'[v] = issued[v]
        /\ \A w \in Visitor \ {v} : Rests(w)
    BY <1>0, <1>7 DEF forwardAcceptPayment, Goto, TypeOK, Tables, Rests, gateway
  <2>2. IsAnswered(v)
    BY <1>0, <2>1 DEF Messages, MessageOf
  <2>3. IsAnswered(v)'
    BY <2>1, <2>2 DEF IsAnswered
  <2> QED
    BY <2>1, <2>3 DEF Keeps, MessageOf
<1>8. ASSUME NEW v \in Visitor, didSendPayment(v) PROVE Keeps(v)
  <2>1. End(v, "failed") \/ End(v, "away")
    BY <1>8 DEF didSendPayment
  <2> QED
    BY <2>1, MessageEnds DEF Over, Keeps
<1>9. ASSUME NEW v \in Visitor, handle(v) \/ content(v) \/ tokenContent(v) PROVE Keeps(v)
  <2>1. CASE End(v, "served")
    BY <2>1, MessageEnds DEF Over, Keeps
  <2>2. CASE verifyTokenWithGateway(v)
    <3>1. /\ at[v] = "asking" /\ at'[v] = "verifying"
          /\ asks' = asks /\ via' = via /\ issued' = issued
          /\ reply'[v] = serializeTokenRequest(asks[v])
          /\ \A w \in Visitor \ {v} : Rests(w)
      BY <1>0, <1>9, <2>2 DEF handle, content, tokenContent, verifyTokenWithGateway, Goto,
         TypeOK, Tables, Rests, gateway
    <3>2. asks[v] \in Token /\ issued[asks[v]] # Undefined
      BY <1>0, <3>1 DEF Messages, MessageOf
    <3> QED
      BY <3>1, <3>2 DEF Keeps, MessageOf
  <2> QED
    BY <1>9, <2>1, <2>2 DEF handle, content, tokenContent
<1>10. ASSUME NEW v \in Visitor, Verify(v) PROVE Keeps(v)
  <2>1. /\ at[v] = "verifying" /\ asks[v] \in Token /\ issued[asks[v]] # Undefined
        /\ reply[v] = serializeTokenRequest(asks[v])
    BY <1>0, <1>10 DEF Verify, Messages, MessageOf
  <2>2. deserializeTokenRequest(reply[v]) = asks[v]
    BY <2>1, AnswersAreRead
  <2>3. PICK failed \in BOOLEAN :
          /\ reply' = [reply EXCEPT ![v] = acceptVerify(asks[v], GatewayOf(via[v]), failed)]
          /\ Goto(v, IF failed THEN "doubted" ELSE "verified")
    BY <1>10, <2>2 DEF Verify
  <2>4. /\ asks' = asks /\ via' = via /\ issued' = issued
        /\ reply'[v] = acceptVerify(asks[v], GatewayOf(via[v]), failed)
        /\ \A w \in Visitor \ {v} : Rests(w)
    BY <1>0, <1>10, <2>3 DEF Verify, Goto, TypeOK, Tables, Rests, gateway
  <2>5. CASE failed
    <3>1. at'[v] = "doubted"
      BY <1>0, <2>3, <2>5 DEF Goto, TypeOK
    <3>2. reply'[v] = serializeTokenResponse(FALSE)
      <4>1. (~failed /\ verifyToken(asks[v], GatewayOf(via[v]))) = FALSE
        BY <2>5
      <4> QED
        BY <2>4, <4>1, Zenon DEF acceptVerify
    <3> QED
      BY <2>1, <2>4, <3>1, <3>2 DEF Keeps, MessageOf
  <2>6. CASE ~failed
    <3>1. at'[v] = "verified"
      BY <1>0, <2>3, <2>6 DEF Goto, TypeOK
    <3>2. reply'[v] = serializeTokenResponse(issued[asks[v]] = GatewayOf(via[v]))
      <4>1. (~failed /\ verifyToken(asks[v], GatewayOf(via[v])))
              = (issued[asks[v]] = GatewayOf(via[v]))
        BY <2>6 DEF verifyToken
      <4> QED
        BY <2>4, <4>1, Zenon DEF acceptVerify
    <3>3. reply'[v] = serializeTokenResponse(issued'[asks'[v]] = GatewayOf(via'[v]))
      BY <2>4, <3>2, Zenon
    <3> QED
      BY <2>1, <2>4, <3>1, <3>3 DEF Keeps, MessageOf
  <2> QED
    BY <2>5, <2>6
<1>11. ASSUME NEW v \in Visitor, resume(v) PROVE Keeps(v)
  <2>1. End(v, "served") \/ End(v, "invalid")
    BY <1>11 DEF resume
  <2> QED
    BY <2>1, MessageEnds DEF Over, Keeps
<1>12. ASSUME NEW v \in Visitor, resumeContent(v) \/ resumeTokenContent(v) PROVE Keeps(v)
  <2>1. End(v, "served") \/ End(v, "unpaid")
    BY <1>12 DEF resumeContent, resumeTokenContent
  <2> QED
    BY <2>1, MessageEnds DEF Over, Keeps
<1>13. ASSUME Tick \/ cleanupExpired \/ UNCHANGED vars PROVE \A v \in Visitor : Rests(v)
  BY <1>13 DEF Tick, cleanupExpired, vars, visitor, Rests
<1>14. ASSUME restart PROVE Messages'
  <2> SUFFICES ASSUME NEW v \in Visitor PROVE MessageOf(v)'
    BY DEF Messages
  <2>1. CASE via[v] = "playground" /\ at[v] \in AtSite
    <3>1. at'[v] = "failed"
      BY <1>14, <2>1 DEF restart
    <3> QED
      BY <3>1 DEF MessageOf
  <2>2. CASE ~(via[v] = "playground" /\ at[v] \in AtSite)
    <3>1. Rests(v)
      BY <1>14, <2>2 DEF restart, Rests
    <3> QED
      BY <1>0, <3>1, MessageStays
  <2> QED
    BY <2>1, <2>2
<1> QED
  BY <1>a, <1>b, <1>1, <1>2, <1>3, <1>4, <1>5, <1>6, <1>7, <1>8, <1>9, <1>10, <1>11, <1>12,
     <1>13, <1>14
     DEF Next, Exchange, acceptPayment, acceptTokenPayment, acceptToken, acceptTokenToken

-----------------------------------------------------------------------------
(* Every step keeps what the tables say. *)

LEMMA TablesInvariance == Inv /\ [Next]_vars => Tables'
<1> SUFFICES ASSUME Inv, [Next]_vars PROVE Tables'
  OBVIOUS
<1>1. DOMAIN reply = Visitor /\ DOMAIN ledger = Token
  BY DEF Inv, Tables
<1>2. DOMAIN reply' = Visitor
  <2>1. ASSUME NEW v \in Visitor,
               visit(v) \/ doPreflight(v) \/ ask(v) \/ lose(v) \/ doPayment(v) \/ Accept(v)
               \/ forwardAcceptPayment(v) \/ didSendPayment(v)
        PROVE  DOMAIN reply' = Visitor
    BY <1>1, <2>1 DEF visit, doPreflight, ask, lose, doPayment, Accept, forwardAcceptPayment,
       didSendPayment, End
  <2>2. ASSUME NEW v \in Visitor,
               handle(v) \/ content(v) \/ tokenContent(v) \/ Verify(v) \/ resume(v)
               \/ resumeContent(v) \/ resumeTokenContent(v)
        PROVE  DOMAIN reply' = Visitor
    BY <1>1, <2>2 DEF handle, content, tokenContent, verifyTokenWithGateway, Verify, resume,
       resumeContent, resumeTokenContent, End
  <2>3. CASE Tick \/ restart \/ cleanupExpired \/ UNCHANGED vars
    BY <1>1, <2>3 DEF Tick, restart, cleanupExpired, vars, visitor
  <2> QED
    BY <2>1, <2>2, <2>3
       DEF Next, Exchange, acceptPayment, acceptTokenPayment, acceptToken, acceptTokenToken
<1>3. DOMAIN ledger' = Token
  BY <1>1 DEF Next, Exchange, acceptPayment, acceptTokenPayment, acceptToken, acceptTokenToken,
     visit, doPreflight, ask, lose, doPayment, Accept, accepted, forwardAcceptPayment,
     didSendPayment, handle, content, tokenContent, Verify, resume, resumeContent,
     resumeTokenContent, Tick, restart, cleanupExpired, vars, gateway
<1> QED
  BY <1>2, <1>3 DEF Tables

\* The four things that are known of a token change one at a time.
LEMMA TokenStays ==
  ASSUME Inv, [Next]_vars, NEW t \in Token,
         bought'[t] = bought[t] \/ issued'[bought'[t]] # Undefined,
         \/ stored'[t] = Undefined
         \/ stored'[t] = stored[t] /\ confirmed'[t] = confirmed[t]
         \/ confirmed'[t] # Undefined /\ stored'[t] = confirmed'[t] + TTL,
         confirmed'[t] = confirmed[t] \/ (confirmed'[t] <= now' /\ issued'[t] = "hub"),
         UNCHANGED gateway, now <= now'
  PROVE  TokenOf(t)'
<1>1. TokenOf(t)
  BY DEF Inv, Tokens
<1>2. bought[t] \in Token \cup {Undefined} /\ confirmed[t] \in Nat \cup {Undefined}
      /\ now \in Nat /\ now' \in Nat
  BY TypeInvariance DEF Inv, TypeOK
<1>3. bought'[t] # Undefined => issued'[bought'[t]] # Undefined
  BY <1>1, <1>2 DEF TokenOf, gateway
<1>4. stored'[t] # Undefined => confirmed'[t] # Undefined /\ stored'[t] = confirmed'[t] + TTL
  BY <1>1 DEF TokenOf
<1>5. confirmed'[t] # Undefined => confirmed'[t] <= now' /\ issued'[t] = "hub"
  BY <1>1, <1>2 DEF TokenOf, gateway
<1>6. issued'[t] # Undefined => Redeemable(t)'
  BY <1>1 DEF TokenOf, gateway, Redeemable
<1> QED
  BY <1>3, <1>4, <1>5, <1>6 DEF TokenOf

LEMMA TokensInvariance == Inv /\ [Next]_vars => Tokens'
<1> SUFFICES ASSUME Inv, [Next]_vars, NEW t \in Token PROVE TokenOf(t)'
  BY DEF Tokens
<1> USE PaywallAssumption, ValuesAssumption
<1>0. TypeOK /\ Tables /\ Messages /\ Tokens /\ IssuedStays /\ TokenOf(t)
  BY GatewaysKeep DEF Inv, Tokens
<1>a. now \in 1 .. MaxNow /\ now' \in Nat
  BY <1>0, TypeInvariance DEF TypeOK
\* A token that is stored is stored with the time it was confirmed at.
<1>b. ASSUME NEW token \in Token, issued[token] = "hub", UNCHANGED <<gateway, now, bought>>,
             stored' = [stored EXCEPT ![token] = now + TTL],
             confirmed' = [confirmed EXCEPT ![token] = now]
      PROVE  TokenOf(t)'
  <2>1. CASE t = token
    <3>1. /\ stored'[t] = now + TTL /\ confirmed'[t] = now /\ now' = now
          /\ issued'[t] = "hub" /\ bought' = bought
      BY <1>0, <1>b, <2>1 DEF TypeOK, gateway
    <3>2. /\ now # Undefined /\ now <= now
      BY <1>a
    <3> QED
      BY <3>1, <3>2, <1>b, TokenStays
  <2>2. CASE t # token
    <3>1. /\ stored'[t] = stored[t] /\ confirmed'[t] = confirmed[t] /\ now' = now
          /\ bought' = bought
      BY <1>0, <1>b, <2>2 DEF TypeOK
    <3>2. now <= now
      BY <1>a
    <3> QED
      BY <3>1, <3>2, <1>b, TokenStays
  <2> QED
    BY <2>1, <2>2
<1>c. ASSUME UNCHANGED <<gateway, bought, confirmed>>, now <= now',
             stored'[t] \in {stored[t], Undefined}
      PROVE  TokenOf(t)'
  BY <1>c, TokenStays
<1>1. ASSUME NEW v \in Visitor, Accept(v) PROVE TokenOf(t)'
  <2>1. UNCHANGED <<now, stored, confirmed, bought>>
    BY <1>1 DEF Accept, playground
  <2>2. now <= now
    BY <1>a
  <2>3. CASE UNCHANGED gateway
    BY <1>c, <2>1, <2>2, <2>3
  <2>4. CASE t # v
    <3>1. issued'[t] = issued[t] /\ ledger'[t] = ledger[t]
      BY <1>0, <1>1, <2>4 DEF Accept, accepted, gateway, TypeOK, Tables
    <3>2. issued[t] # Undefined => Redeemable(t)'
      BY <1>0, <3>1 DEF TokenOf, Redeemable
    <3>3. bought[t] # Undefined => issued'[bought[t]] # Undefined
      <4>1. bought[t] # Undefined => bought[t] \in Token
        BY <1>0 DEF TypeOK
      <4> QED
        BY <1>0, <4>1 DEF TokenOf, IssuedStays
    <3> QED
      BY <1>0, <2>1, <3>1, <3>2, <3>3 DEF TokenOf
  <2>5. CASE t = v /\ ~UNCHANGED gateway
    <3> DEFINE payment == deserializePaymentRequest(reply[v])
    <3>1. /\ at[v] \in {"paying", "forwarding"}
          /\ payment # Unreadable /\ issued[v] = Undefined
          /\ issued' = [issued EXCEPT ![v] = GatewayOf(via[v])]
          /\ ledger' = [ledger EXCEPT ![v] = insertPayment(v, payment, now)]
      BY <1>1, <2>5 DEF Accept, accepted
    <3>2. IsSent(v)
      BY <1>0, <3>1 DEF Messages, MessageOf
    <3>3. payment = [PaymentBy[v] EXCEPT !.tokenContract = payment.tokenContract]
      BY <3>1, <3>2 DEF IsSent
    <3>4. ledger'[v] = insertPayment(v, payment, now)
      BY <1>0, <3>1 DEF Tables
    <3>5. Redeemable(v)'
      <4> DEFINE contract == payment.tokenContract
      <4>1. payment = [PaymentBy[v] EXCEPT !.tokenContract = contract]
        BY <3>3
      <4> HIDE DEF payment, contract
      <4> QED
        BY <1>a, <3>4, <4>1, RowsAreRedeemable DEF Redeemable
    <3>6. confirmed[t] = Undefined /\ stored[t] = Undefined
      BY <1>0, <2>5, <3>1 DEF TokenOf, Gateway
    <3>7. bought[t] # Undefined => issued'[bought[t]] # Undefined
      <4>1. bought[t] # Undefined => bought[t] \in Token
        BY <1>0 DEF TypeOK
      <4> QED
        BY <1>0, <4>1 DEF TokenOf, IssuedStays
    <3> QED
      BY <2>1, <2>5, <3>5, <3>6, <3>7 DEF TokenOf
  <2> QED
    BY <2>3, <2>4, <2>5
<1>2. ASSUME NEW v \in Visitor, forwardAcceptPayment(v) PROVE TokenOf(t)'
  <2>1. UNCHANGED <<gateway, now, bought>> /\ at[v] = "forwarded"
    BY <1>2 DEF forwardAcceptPayment
  <2>2. IsAnswered(v) /\ via[v] = "playground"
    BY <1>0, <2>1 DEF Messages, MessageOf
  <2>3. CASE UNCHANGED playground
    BY <1>a, <1>c, <2>1, <2>3 DEF playground
  <2>4. CASE ~UNCHANGED playground
    <3>1. /\ Field(reply[v], "token") # Undefined
          /\ stored' = [stored EXCEPT ![Field(reply[v], "token")] = now + TTL]
          /\ confirmed' = [confirmed EXCEPT ![Field(reply[v], "token")] = now]
      BY <1>2, <2>4 DEF forwardAcceptPayment, remember
    <3>2. Field(reply[v], "token") = v /\ issued[v] = "hub"
      BY <2>2, <3>1, AnswersAreRead DEF IsAnswered, GatewayOf
    <3> QED
      BY <1>b, <2>1, <3>1, <3>2
  <2> QED
    BY <2>3, <2>4
<1>3. ASSUME NEW v \in Visitor, didSendPayment(v) PROVE TokenOf(t)'
  <2>1. UNCHANGED <<now, gateway, stored, confirmed>> /\ at[v] = "paid"
    BY <1>3 DEF didSendPayment, playground
  <2>2. IsAnswered(v)
    BY <1>0, <2>1 DEF Messages, MessageOf
  <2>3. CASE UNCHANGED bought
    BY <1>a, <1>c, <2>1, <2>3
  <2>4. CASE ~UNCHANGED bought
    <3>1. /\ deserializePaymentResponse(reply[v]) # Unreadable
          /\ bought' = [bought EXCEPT ![v] = deserializePaymentResponse(reply[v])]
      BY <1>3, <2>4 DEF didSendPayment
    <3>2. deserializePaymentResponse(reply[v]) = v /\ issued[v] # Undefined
      BY <2>2, <3>1, AnswersAreRead DEF IsAnswered, GatewayOf, Gateway
    <3>3. bought'[t] = bought[t] \/ issued'[bought'[t]] # Undefined
      BY <1>0, <2>1, <3>1, <3>2 DEF TypeOK, gateway
    <3>4. now <= now' /\ stored'[t] = stored[t] /\ confirmed'[t] = confirmed[t]
      BY <1>a, <2>1
    <3> QED
      BY <2>1, <3>3, <3>4, TokenStays
  <2> QED
    BY <2>3, <2>4
<1>4. ASSUME NEW v \in Visitor, resume(v) PROVE TokenOf(t)'
  <2>1. /\ UNCHANGED <<now, gateway, bought>> /\ via[v] = "playground"
        /\ at[v] \in {"verified", "doubted"}
    BY <1>4 DEF resume
  <2>2. CASE UNCHANGED playground
    BY <1>a, <1>c, <2>1, <2>2 DEF playground
  <2>3. CASE ~UNCHANGED playground
    <3>1. deserializeTokenResponse(reply[v]) /\ markVerified(asks[v])
      BY <1>4, <2>3 DEF resume
    <3>2. asks[v] \in Token
      BY <1>0, <2>1 DEF Messages, MessageOf
    <3>3. issued[asks[v]] = "hub"
      <4>1. deserializeTokenResponse(serializeTokenResponse(FALSE)) = FALSE
        BY StatusIsRead
      <4>2. at[v] = "verified"
        BY <1>0, <2>1, <3>1, <4>1, Zenon DEF Messages, MessageOf
      <4>3. reply[v] = serializeTokenResponse(issued[asks[v]] = GatewayOf(via[v]))
        BY <1>0, <4>2, Zenon DEF Messages, MessageOf
      <4>4. (issued[asks[v]] = GatewayOf(via[v])) \in BOOLEAN
        OBVIOUS
      <4>5. deserializeTokenResponse(reply[v]) = (issued[asks[v]] = GatewayOf(via[v]))
        BY <4>3, <4>4, StatusIsRead, Zenon
      <4>6. issued[asks[v]] = GatewayOf(via[v])
        BY <3>1, <4>5, Zenon
      <4> QED
        BY <2>1, <4>6 DEF GatewayOf
    <3> QED
      BY <1>b, <2>1, <3>1, <3>2, <3>3 DEF markVerified, remember
  <2> QED
    BY <2>2, <2>3
<1>5. ASSUME NEW v \in Visitor,
             \/ visit(v) \/ doPreflight(v) \/ ask(v) \/ lose(v) \/ doPayment(v) \/ handle(v)
             \/ content(v) \/ tokenContent(v) \/ Verify(v) \/ resumeContent(v)
             \/ resumeTokenContent(v)
      PROVE  TokenOf(t)'
  <2>1. UNCHANGED <<now, gateway, playground, bought>>
    BY <1>5 DEF visit, doPreflight, ask, lose, doPayment, handle, content, tokenContent,
       Verify, resumeContent, resumeTokenContent
  <2> QED
    BY <1>a, <1>c, <2>1 DEF playground
<1>6. ASSUME Tick \/ restart \/ cleanupExpired \/ UNCHANGED vars PROVE TokenOf(t)'
  <2>1. UNCHANGED <<gateway, bought, confirmed>>
    BY <1>6 DEF Tick, restart, cleanupExpired, vars, visitor, playground
  <2>2. now <= now'
    BY <1>a, <1>6 DEF Tick, restart, cleanupExpired, vars
  <2>3. stored'[t] \in {stored[t], Undefined}
    BY <1>0, <1>6 DEF Tick, restart, cleanupExpired, vars, playground
  <2> QED
    BY <1>c, <2>1, <2>2, <2>3
<1> QED
  BY <1>1, <1>2, <1>3, <1>4, <1>5, <1>6
     DEF Next, Exchange, acceptPayment, acceptTokenPayment, acceptToken, acceptTokenToken

-----------------------------------------------------------------------------
(* The theorems. *)

LEMMA Invariance == Spec => []Inv
<1>1. Inv /\ [Next]_vars => Inv'
  BY TypeInvariance, TablesInvariance, MessagesInvariance, TokensInvariance DEF Inv
<1> QED
  BY InitInv, <1>1, PTL DEF Spec

(* Every variable has its type: no handler writes a token, a place or an   *)
(* expiry that its readers do not expect.                                  *)
THEOREM TypesHold == Spec => []TypeOK
<1>1. Inv => TypeOK
  BY DEF Inv
<1> QED
  BY Invariance, <1>1, PTL

(* What a gateway answers with is backed by the payment it will claim with, *)
(* as the buyer signed it: a token is given after its payment is stored,   *)
(* and the row of table payment gives back what was signed.                *)
THEOREM TokensAreRedeemable ==
  Spec => [](\A token \in Token : issued[token] # Undefined => Redeemable(token))
<1>1. Inv => \A token \in Token : issued[token] # Undefined => Redeemable(token)
  BY DEF Inv, Tokens, TokenOf
<1> QED
  BY Invariance, <1>1, PTL

\* Whom a step serves has a token of the gateway of its site.
LEMMA Served ==
  ASSUME Inv, [Next]_vars, NEW v \in Visitor, Serves(v)
  PROVE  /\ asks[v] \in Token /\ issued[asks[v]] = GatewayOf(via[v])
         /\ via[v] = "playground" =>
              /\ confirmed'[asks[v]] # Undefined
              /\ confirmed'[asks[v]] = now \/ now - confirmed'[asks[v]] < TTL
<1> USE PaywallAssumption, ValuesAssumption
<1>0. TypeOK /\ Messages /\ Tokens /\ MessageOf(v)
  BY DEF Inv, Messages
\* A step of another visitor leaves this one where it is.
<1>1. /\ at[v] # "served" /\ at'[v] = "served"
  BY DEF Serves
<1>2. \/ handle(v) \/ resume(v) \/ resumeContent(v) \/ resumeTokenContent(v)
  <2>1. ~UNCHANGED vars /\ ~Tick /\ ~cleanupExpired /\ ~restart
    BY <1>1 DEF vars, visitor, Tick, cleanupExpired, restart
  <2>2. ASSUME NEW w \in Visitor, NEW how, End(w, how) PROVE w = v /\ how = "served"
    BY <1>0, <1>1, <2>2 DEF End, Goto, TypeOK
  <2>3. ASSUME NEW w \in Visitor, NEW place, Goto(w, place), place # "served" PROVE FALSE
    BY <1>0, <1>1, <2>3 DEF Goto, TypeOK
  <2>4. ASSUME NEW w \in Visitor,
               visit(w) \/ doPreflight(w) \/ ask(w) \/ lose(w) \/ didSendPayment(w)
        PROVE  FALSE
    BY <2>2, <2>3, <2>4 DEF visit, doPreflight, ask, lose, didSendPayment
  <2>5. ASSUME NEW w \in Visitor,
               doPayment(w) \/ Accept(w) \/ forwardAcceptPayment(w) \/ content(w)
               \/ tokenContent(w) \/ Verify(w)
        PROVE  FALSE
    BY <2>3, <2>5 DEF doPayment, Accept, forwardAcceptPayment, content, tokenContent,
       verifyTokenWithGateway, Verify
  <2>6. ASSUME NEW w \in Visitor,
               handle(w) \/ resume(w) \/ resumeContent(w) \/ resumeTokenContent(w)
        PROVE  w = v
    BY <2>2, <2>3, <2>6 DEF handle, resume, resumeContent, resumeTokenContent,
       verifyTokenWithGateway
  <2> QED
    BY <2>1, <2>4, <2>5, <2>6
       DEF Next, Exchange, acceptPayment, acceptTokenPayment, acceptToken, acceptTokenToken
<1>3. at[v] \in {"asking", "verified", "doubted"}
  BY <1>2 DEF handle, resume, resumeContent, resumeTokenContent
<1>4. asks[v] \in Token
  BY <1>0, <1>3 DEF MessageOf
<1>5. now \in Nat /\ confirmed[asks[v]] \in Nat \cup {Undefined}
      /\ stored[asks[v]] \in Nat \cup {Undefined}
  BY <1>0, <1>4 DEF TypeOK
<1>6. CASE handle(v)
  <2>1. isTokenValid(asks[v]) /\ via[v] = "playground" /\ UNCHANGED playground
    <3>1. ~verifyTokenWithGateway(v)
      BY <1>0, <1>1 DEF verifyTokenWithGateway, Goto, TypeOK
    <3> QED
      BY <1>6, <3>1 DEF handle
  <2>2. /\ stored[asks[v]] > now /\ confirmed[asks[v]] # Undefined
        /\ stored[asks[v]] = confirmed[asks[v]] + TTL
        /\ confirmed[asks[v]] <= now /\ issued[asks[v]] = "hub"
    BY <1>0, <1>4, <2>1 DEF isTokenValid, Tokens, TokenOf
  <2>3. now - confirmed[asks[v]] < TTL
    BY <1>5, <2>2
  <2>4. GatewayOf(via[v]) = "hub" /\ confirmed' = confirmed
    BY <2>1 DEF GatewayOf, playground
  <2> QED
    BY <1>4, <2>2, <2>3, <2>4
<1>7. CASE resume(v) \/ resumeContent(v) \/ resumeTokenContent(v)
  <2>1. deserializeTokenResponse(reply[v])
    <3>1. ASSUME NEW how, End(v, how) PROVE how = "served"
      BY <1>0, <1>1, <3>1 DEF End, Goto, TypeOK
    <3> QED
      BY <1>7, <3>1 DEF resume, resumeContent, resumeTokenContent
  <2>2. at[v] \in {"verified", "doubted"}
    BY <1>7 DEF resume, resumeContent, resumeTokenContent
  <2>3. deserializeTokenResponse(serializeTokenResponse(FALSE)) = FALSE
    BY StatusIsRead
  <2>4. at[v] = "verified"
    BY <1>0, <2>1, <2>2, <2>3, Zenon DEF MessageOf
  <2>5. reply[v] = serializeTokenResponse(issued[asks[v]] = GatewayOf(via[v]))
    BY <1>0, <2>4, Zenon DEF MessageOf
  <2>6. (issued[asks[v]] = GatewayOf(via[v])) \in BOOLEAN
    OBVIOUS
  <2>7. issued[asks[v]] = GatewayOf(via[v])
    BY <2>1, <2>5, <2>6, StatusIsRead, Zenon
  <2>8. via[v] = "playground" => confirmed'[asks[v]] = now
    <3> SUFFICES ASSUME via[v] = "playground" PROVE confirmed'[asks[v]] = now
      OBVIOUS
    <3>1. resume(v)
      BY <1>7 DEF resumeContent, resumeTokenContent
    <3>2. ~End(v, "invalid")
      BY <1>0, <1>1 DEF End, Goto, TypeOK
    <3>3. markVerified(asks[v])
      BY <3>1, <3>2 DEF resume
    <3> QED
      BY <1>0, <1>4, <3>3 DEF markVerified, TypeOK
  <2> QED
    BY <1>4, <1>5, <2>7, <2>8
<1> QED
  BY <1>2, <1>6, <1>7

(* Content is served only for a token of the site's own gateway, behind    *)
(* which that gateway has stored the payment as it was signed.             *)
THEOREM ContentIsPaid == Spec => ServedIsPaid
<1>1. Inv /\ [Next]_vars =>
        [\A v \in Visitor : Serves(v) =>
           issued[asks[v]] = GatewayOf(via[v]) /\ Redeemable(asks[v])]_vars
  <2> SUFFICES ASSUME Inv, [Next]_vars, NEW v \in Visitor, Serves(v)
               PROVE  issued[asks[v]] = GatewayOf(via[v]) /\ Redeemable(asks[v])
    OBVIOUS
  <2>1. asks[v] \in Token /\ issued[asks[v]] = GatewayOf(via[v])
    BY Served
  <2>2. issued[asks[v]] # Undefined
    BY <2>1, ValuesAssumption DEF GatewayOf, Gateway
  <2> QED
    BY <2>1, <2>2 DEF Inv, Tokens, TokenOf
<1> QED
  BY Invariance, <1>1, PTL DEF Spec, ServedIsPaid

(* The playground serves a token only within its time to live after the    *)
(* gateway last vouched for it, whatever the order of answers, cleanings   *)
(* and restarts.                                                           *)
THEOREM ContentIsFresh == Spec => ServedIsFresh
<1>1. Inv /\ [Next]_vars =>
        [\A v \in Visitor : Serves(v) /\ via[v] = "playground" =>
           /\ confirmed'[asks[v]] # Undefined
           /\ \/ confirmed'[asks[v]] = now
              \/ now - confirmed'[asks[v]] < TTL]_vars
  BY Served
<1> QED
  BY Invariance, <1>1, PTL DEF Spec, ServedIsFresh

(* A visitor with a token that was bought is refused only by a site of     *)
(* another gateway, or because the gateway's lookup failed.                *)
THEOREM TokensAreHonoured == Spec => BoughtIsHonoured
<1>1. Inv /\ [Next]_vars =>
        [\A v \in Visitor : Refuses(v) =>
           at[v] = "doubted" \/ issued[asks[v]] # GatewayOf(via[v])]_vars
  <2> SUFFICES ASSUME Inv, [Next]_vars, NEW v \in Visitor, Refuses(v)
               PROVE  at[v] = "doubted" \/ issued[asks[v]] # GatewayOf(via[v])
    OBVIOUS
  <2>0. TypeOK /\ MessageOf(v) /\ at[v] \notin Over /\ at'[v] \in {"unpaid", "invalid"}
    BY DEF Inv, Messages, Refuses
  <2>1. resume(v) \/ resumeContent(v) \/ resumeTokenContent(v)
    <3>1. ~UNCHANGED vars /\ ~Tick /\ ~cleanupExpired /\ ~restart
      BY <2>0 DEF vars, visitor, Tick, cleanupExpired, restart, Over
    <3>2. ASSUME NEW w \in Visitor, NEW how, End(w, how)
          PROVE  w = v /\ how \in {"unpaid", "invalid"}
      BY <2>0, <3>2 DEF End, Goto, TypeOK, Over
    <3>3. ASSUME NEW w \in Visitor, NEW place, Goto(w, place)
          PROVE  w = v /\ place \in {"unpaid", "invalid"}
      BY <2>0, <3>3 DEF Goto, TypeOK, Over
    <3>4. ASSUME NEW w \in Visitor,
                 visit(w) \/ doPreflight(w) \/ ask(w) \/ lose(w) \/ didSendPayment(w)
          PROVE  FALSE
      BY <3>2, <3>3, <3>4 DEF visit, doPreflight, ask, lose, didSendPayment
    <3>5. ASSUME NEW w \in Visitor,
                 doPayment(w) \/ Accept(w) \/ forwardAcceptPayment(w) \/ content(w)
                 \/ tokenContent(w) \/ Verify(w) \/ handle(w)
          PROVE  FALSE
      BY <3>2, <3>3, <3>5 DEF doPayment, Accept, forwardAcceptPayment, content,
         tokenContent, verifyTokenWithGateway, Verify, handle
    <3>6. ASSUME NEW w \in Visitor, resume(w) \/ resumeContent(w) \/ resumeTokenContent(w)
          PROVE  w = v
      BY <3>2, <3>6 DEF resume, resumeContent, resumeTokenContent
    <3> QED
      BY <3>1, <3>4, <3>5, <3>6
         DEF Next, Exchange, acceptPayment, acceptTokenPayment, acceptToken, acceptTokenToken
  <2>2. at[v] \in {"verified", "doubted"} /\ ~deserializeTokenResponse(reply[v])
    <3>1. ~End(v, "served")
      BY <2>0 DEF End, Goto, TypeOK
    <3> QED
      BY <2>1, <3>1 DEF resume, resumeContent, resumeTokenContent
  <2>3. SUFFICES ASSUME at[v] = "verified" PROVE issued[asks[v]] # GatewayOf(via[v])
    BY <2>2
  <2>4. reply[v] = serializeTokenResponse(issued[asks[v]] = GatewayOf(via[v]))
    BY <2>0, <2>3, Zenon DEF MessageOf
  <2>5. (issued[asks[v]] = GatewayOf(via[v])) \in BOOLEAN
    OBVIOUS
  <2> QED
    BY <2>2, <2>4, <2>5, StatusIsRead, Zenon
<1> QED
  BY Invariance, <1>1, PTL DEF Spec, BoughtIsHonoured
=============================================================================
