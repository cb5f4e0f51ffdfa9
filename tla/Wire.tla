---------------------------------- MODULE Wire ----------------------------------
(***************************************************************************)
(* What payments, tokens and paywall terms become on their way: the        *)
(* classes *Serde and *Serializer of packages/iohtee/src, JSON over HTTP,  *)
(* and the rows of table payment.  A message is a function from the names  *)
(* of its fields, a number in text is Text(n), and what cannot be read is  *)
(* Unreadable: the code throws.                                            *)
(***************************************************************************)
EXTENDS Naturals

CONSTANTS Undefined, Unreadable

Field(message, f) == IF f \in DOMAIN message THEN message[f] ELSE Undefined

\* JSON.stringify leaves out what is undefined.
Json(message) == [f \in {g \in DOMAIN message : message[g] # Undefined} |-> message[f]]

Text(n) == [text |-> n]
BigInt(t) == t.text

\* Signature.toParts and fromParts, of a signature <<v, r, s>>.
toParts(signature) == [v |-> signature[1], r |-> signature[2], s |-> signature[3]]
fromParts(parts) == <<parts.v, parts.r, parts.s>>

-----------------------------------------------------------------------------
(* Payments. *)

required == {"channelId", "value", "sender", "receiver", "price",
             "channelValue", "v", "r", "s"}

serializePayment(payment) ==
  LET sig == toParts(payment.signature) IN
  [channelId |-> payment.channelId, value |-> Text(payment.value),
   sender |-> payment.sender, receiver |-> payment.receiver,
   price |-> Text(payment.price), channelValue |-> Text(payment.channelValue),
   v |-> sig.v, r |-> sig.r, s |-> sig.s, token |-> payment.token,
   meta |-> payment.meta, createdAt |-> payment.createdAt,
   tokenContract |-> payment.tokenContract]

\* Number(undefined) is NaN: a payment that was never stored has no date.
deserializePayment(data) ==
  IF required \subseteq DOMAIN data
  THEN [channelId |-> data.channelId, sender |-> data.sender,
        receiver |-> data.receiver, price |-> BigInt(data.price),
        value |-> BigInt(data.value), channelValue |-> BigInt(data.channelValue),
        signature |-> fromParts(data), meta |-> Field(data, "meta"),
        token |-> Field(data, "token"), createdAt |-> Field(data, "createdAt"),
        tokenContract |-> Field(data, "tokenContract")]
  ELSE Unreadable

\* AcceptPaymentRequest: purchaseMeta, if there is one, needs a type.
serializePaymentRequest(payment, purchaseMeta) ==
  [payment |-> Json(serializePayment(payment)), purchaseMeta |-> purchaseMeta]

deserializePaymentRequest(data) ==
  IF Field(data, "payment") = Undefined \/ Field(data, "purchaseMeta") = "untyped"
  THEN Unreadable
  ELSE deserializePayment(data.payment)

\* AcceptPaymentResponse, and the token of Transport.requestToken's header.
serializePaymentResponse(token) == [token |-> token]
deserializePaymentResponse_Whole(data) == data
deserializePaymentResponse(data) ==
  IF Field(data, "token") = Undefined THEN Unreadable ELSE data.token

\* AcceptTokenRequest and AcceptTokenResponse.
serializeTokenRequest(token) == [token |-> token]
deserializeTokenRequest(data) ==
  IF Field(data, "token") = Undefined THEN Unreadable ELSE data.token

serializeTokenResponse(status) == [status |-> status]
deserializeTokenResponse(data) ==
  IF Field(data, "status") = Undefined THEN Unreadable ELSE data.status

\* A row of table payment.  The serialized payment has no contractAddress, and
\* column tokenContract is never written.
insertPayment(token, payment, now) ==
  LET serialized == serializePayment(payment) IN
  [f \in (DOMAIN serialized \ {"tokenContract"}) \cup {"contractAddress"} |->
     CASE f = "token" -> token
       [] f = "createdAt" -> now
       [] OTHER -> Field(serialized, f)]

inflatePayment(row) == deserializePayment(row)

-----------------------------------------------------------------------------
(* Paywall terms, in the headers of an answer 402. *)

TRANSPORT_VERSION == "2.0.0"

serializeChannel(info) ==
  [channelId |-> info.channelId, spent |-> Text(info.spent), sign |-> info.sign]
deserializeChannel(data) ==
  IF \E f \in {"channelId", "spent", "sign"} : Field(data, f) = Undefined
  THEN Unreadable
  ELSE [channelId |-> data.channelId, spent |-> BigInt(data.spent), sign |-> data.sign]

serializeTerms(terms) ==
  [address |-> terms.receiver, price |-> Text(terms.price),
   gateway |-> terms.gateway, tokenContract |-> terms.tokenContract,
   meta |-> terms.meta, version |-> TRANSPORT_VERSION,
   channels |-> {serializeChannel(info) : info \in terms.channels}]

\* Another version is not supported, and the channels must be there.
deserializeTerms(headers) ==
  IF Field(headers, "version") # TRANSPORT_VERSION
     \/ Field(headers, "channels") = Undefined
  THEN Unreadable
  ELSE [price |-> BigInt(headers.price), receiver |-> headers.address,
        gateway |-> headers.gateway, meta |-> Field(headers, "meta"),
        tokenContract |-> Field(headers, "tokenContract"),
        channels |-> {deserializeChannel(data) : data \in headers.channels}]

\* PaymentRequiredRequest, as the query of a URL.  It is written with a
\* timestamp and read with a datetime.
serializeTermsRequest(request) ==
  IF request.datetime = Undefined THEN [sender |-> request.sender]
  ELSE [sender |-> request.sender, timestamp |-> Text(request.datetime)]

deserializeTermsRequest(query) ==
  IF Field(query, "sender") = Undefined THEN Unreadable
  ELSE [sender |-> query.sender,
        datetime |-> IF Field(query, "datetime") = Undefined THEN Undefined
                     ELSE BigInt(query.datetime)]

-----------------------------------------------------------------------------
(* Channels, as the hubs list them.  Reading leaves the amounts in text.    *)

serializePaymentChannel(channel) ==
  [channel EXCEPT !.spent = Text(@), !.value = Text(@), !.settlingUntil = Text(@)]

deserializePaymentChannel(data) ==
  [f \in {"sender", "receiver", "channelId", "value", "spent", "state",
          "tokenContract", "settlementPeriod", "settlingUntil"} |-> Field(data, f)]
=============================================================================
