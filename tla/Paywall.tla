--------------------------------- MODULE Paywall ---------------------------------
(***************************************************************************)
(* Buying content over HTTP                                                *)
(*   packages/playground/src/paywall.ts, server.ts, sqliteStore.ts         *)
(*   packages/examples/src/hub.ts, hubTokens.ts, client.ts, clientTokens.ts *)
(*   packages/iohtee/src/client.ts, transport.ts                           *)
(* A visitor asks a site for its content, is told the terms, buys a token  *)
(* from a gateway and asks again with the token.  The gateways are the hub *)
(* and the token hub, each with its IohTee instance, whose tables survive  *)
(* it.  The sites are the content of either hub, the playground, which     *)
(* keeps the tokens it has seen for a while and forwards payments to the   *)
(* hub, and a merchant that writes its terms with the library's serializer *)
(* and sends its buyers to the hub.  Every request and answer is a step.   *)
(*                                                                         *)
(* A gateway on SQLite refuses every payment, as the insert into its table *)
(* payment throws (module Receiver); the examples' hubs are given SQLite   *)
(* URLs.  A token that was stored with a payment that was then refused is  *)
(* never told to anyone and is left out of "issued".                       *)
(***************************************************************************)
EXTENDS Wire

CONSTANTS
  Visitor,
  Site,            \* of "playground", "hub", "tokenHub", "merchant"
  Client,          \* of "example", "tokenExample", "library": who reads the terms
  PaymentBy,       \* the payment each visitor signs; its token is the visitor
  PurchaseMeta,    \* what may go with a payment
  Terms,           \* the terms of the content
  OnPostgreSQL,    \* the gateways whose database can store a payment
  TTL,             \* config.tokenTtlMs
  MaxNow,          \* bounds the clock
  MaxVisits        \* bounds the visits of each visitor

ASSUME PaywallAssumption == /\ Site \subseteq {"playground", "hub", "tokenHub", "merchant"}
                            /\ Client \subseteq {"example", "tokenExample", "library"}
                            /\ OnPostgreSQL \subseteq {"hub", "tokenHub"}
                            /\ TTL \in Nat /\ MaxNow \in Nat \ {0} /\ MaxVisits \in Nat

Token == Visitor

Gateway == {"hub", "tokenHub"}
GatewayOf(site) == IF site = "tokenHub" THEN "tokenHub" ELSE "hub"

(* A payment has these fields and a signature <<v, r, s>>, and neither what  *)
(* is undefined nor an exception is a value that is stored or sent.          *)
ASSUME ValuesAssumption ==
  /\ Undefined \notin Visitor /\ Undefined \notin Gateway
  /\ Undefined \notin Nat /\ Undefined \notin BOOLEAN
  /\ \A v \in Visitor :
       LET p == PaymentBy[v] IN
       /\ p = [channelId |-> p.channelId, sender |-> p.sender, receiver |-> p.receiver,
               price |-> p.price, value |-> p.value, channelValue |-> p.channelValue,
               signature |-> p.signature, meta |-> p.meta, token |-> p.token,
               createdAt |-> p.createdAt, tokenContract |-> p.tokenContract]
       /\ p.signature = <<p.signature[1], p.signature[2], p.signature[3]>>
       /\ \A time \in 1 .. MaxNow :
            LET row == insertPayment(v, p, time)
            IN row # Undefined /\ inflatePayment(row) # Unreadable

VARIABLES
  now,
  stored,      \* table paywall_tokens: when each token expires, or Undefined
  issued,      \* the gateway that gave each token, and has it in its table, or Undefined
  ledger,      \* its row in that gateway's table payment
  confirmed,   \* history: when the playground last heard that a token is good
  at,          \* where each visitor is
  via,         \* the site it deals with
  asks,        \* the token it asks with, or Undefined
  reply,       \* the answer on its way to the visitor or to the site
  bought,      \* the token it has bought, or Undefined
  visits       \* its visits so far

gateway == <<issued, ledger>>
playground == <<stored, confirmed>>
visitor == <<at, via, asks, reply, bought, visits>>
vars == <<now, gateway, playground, visitor>>

Init ==
  /\ now = 1
  /\ stored = [token \in Token |-> Undefined]
  /\ confirmed = [token \in Token |-> Undefined]
  /\ issued = [token \in Token |-> Undefined]
  /\ ledger = [token \in Token |-> Undefined]
  /\ at = [v \in Visitor |-> "away"]
  /\ via = [v \in Visitor |-> Undefined]
  /\ asks = [v \in Visitor |-> Undefined]
  /\ reply = [v \in Visitor |-> Undefined]
  /\ bought = [v \in Visitor |-> Undefined]
  /\ visits = [v \in Visitor |-> 0]

Goto(v, place) == at' = [at EXCEPT ![v] = place]
Over == {"away", "served", "unpaid", "invalid", "failed"}
AtSite == {"forwarding", "forwarded", "asking", "verifying", "verified", "doubted"}

\* The visit ends; what it was about is forgotten.
End(v, how) ==
  /\ Goto(v, how)
  /\ reply' = [reply EXCEPT ![v] = Undefined]
  /\ asks' = [asks EXCEPT ![v] = Undefined]
  /\ via' = [via EXCEPT ![v] = Undefined]

-----------------------------------------------------------------------------
(* Asking without a token, and the terms. *)

\* The playground and the hubs each write their own headers.
Plain(version) ==
  [f \in {"address", "price", "gateway", "version"} |->
     IF f = "version" THEN version ELSE serializeTerms(Terms)[f]]

playgroundHeaders == Plain("1.0")
hubHeaders == Plain("1.0.0")
tokenHubHeaders == [serializeTerms(Terms) EXCEPT !.channels = {}]

challengeHeaders(site) ==
  CASE site = "playground" -> playgroundHeaders
    [] site = "hub" -> hubHeaders
    [] site = "tokenHub" -> tokenHubHeaders
    [] site = "merchant" -> serializeTerms(Terms)

\* client.ts and clientTokens.ts throw unless the headers they need are there;
\* Transport.paymentRequired deserializes.
requiredHeaders == {"gateway", "address", "price"}
requiredTokenHeaders == requiredHeaders \cup {"tokenContract"}

Understands(client, headers) ==
  CASE client = "example" -> requiredHeaders \subseteq DOMAIN headers
    [] client = "tokenExample" -> requiredTokenHeaders \subseteq DOMAIN headers
    [] client = "library" -> deserializeTerms(headers) # Unreadable

\* What the purchase is made with: client.ts leaves the token out.
TermsRead(client, headers) ==
  [tokenContract |-> IF client = "example" THEN Undefined
                     ELSE Field(headers, "tokenContract")]

visit(v) ==
  /\ at[v] \in Over
  /\ bought[v] = Undefined
  /\ visits[v] < MaxVisits
  /\ visits' = [visits EXCEPT ![v] = @ + 1]
  /\ \E client \in Client, site \in Site :
       LET headers == challengeHeaders(site) IN
       IF Understands(client, headers)
       THEN /\ Goto(v, "buy")
            /\ via' = [via EXCEPT ![v] = site]
            /\ reply' = [reply EXCEPT ![v] = TermsRead(client, headers)]
            /\ UNCHANGED asks
       ELSE End(v, "failed")
  /\ UNCHANGED <<now, gateway, playground, bought>>

\* IohTee.pry, over doPreflight: the terms and no purchase.
doPreflight(v) ==
  /\ at[v] \in Over
  /\ visits[v] < MaxVisits
  /\ visits' = [visits EXCEPT ![v] = @ + 1]
  /\ \E site \in Site :
       End(v, IF Understands("library", challengeHeaders(site)) THEN "away" ELSE "failed")
  /\ UNCHANGED <<now, gateway, playground, bought>>

-----------------------------------------------------------------------------
(* Buying. *)

\* doPayment, to the gateway or to the playground, which forwards the body.
doPayment(v) ==
  LET payment == [PaymentBy[v] EXCEPT !.tokenContract = reply[v].tokenContract] IN
  /\ at[v] = "buy"
  /\ \E purchaseMeta \in PurchaseMeta :
       reply' = [reply EXCEPT ![v] = Json(serializePaymentRequest(payment, purchaseMeta))]
  /\ \/ Goto(v, "paying")
     \/ via[v] = "playground" /\ Goto(v, "forwarding")
  /\ UNCHANGED <<now, gateway, playground, via, asks, bought, visits>>

accepted_Unstored(token, payment, hub) ==
  /\ issued' = [issued EXCEPT ![token] = hub]
  /\ UNCHANGED ledger
accepted(token, payment, hub) ==
  /\ issued' = [issued EXCEPT ![token] = hub]
  /\ ledger' = [ledger EXCEPT ![token] = insertPayment(token, payment, now)]

\* What happens within is module Receiver's: the payment is stored with its
\* token, or refused, on SQLite always.  The answer goes where the request
\* came from.
Accept(v) ==
  LET payment == deserializePaymentRequest(reply[v]) IN
  /\ at[v] \in {"paying", "forwarding"}
  /\ Goto(v, IF at[v] = "paying" THEN "paid" ELSE "forwarded")
  /\ \/ /\ payment # Unreadable /\ issued[v] = Undefined
        /\ GatewayOf(via[v]) \in OnPostgreSQL
        /\ accepted(v, payment, GatewayOf(via[v]))
        /\ reply' = [reply EXCEPT ![v] = serializePaymentResponse(v)]
     \/ /\ reply' = [reply EXCEPT ![v] = [error |-> "refused"]]
        /\ UNCHANGED gateway
  /\ UNCHANGED <<now, playground, via, asks, bought, visits>>

\* POST /accept of the hub, and POST /accept-token of the token hub.
acceptPayment(v) == GatewayOf(via[v]) = "hub" /\ Accept(v)
acceptTokenPayment(v) == GatewayOf(via[v]) = "tokenHub" /\ Accept(v)

remember(token) == stored' = [stored EXCEPT ![token] = now + TTL]

\* forwardAcceptPayment: 202, whatever the gateway answered.
forwardAcceptPayment(v) ==
  LET token == Field(reply[v], "token") IN
  /\ at[v] = "forwarded"
  /\ \/ /\ token # Undefined
        /\ remember(token)
        /\ confirmed' = [confirmed EXCEPT ![token] = now]
     \/ token = Undefined /\ UNCHANGED playground
  /\ Goto(v, "paid")
  /\ UNCHANGED <<now, gateway, via, asks, reply, bought, visits>>

\* The purchase returns its token, or throws.
didSendPayment(v) ==
  LET token == deserializePaymentResponse(reply[v]) IN
  /\ at[v] = "paid"
  /\ IF token = Unreadable THEN End(v, "failed") /\ UNCHANGED bought
     ELSE End(v, "away") /\ bought' = [bought EXCEPT ![v] = token]
  /\ UNCHANGED <<now, gateway, playground, visits>>

-----------------------------------------------------------------------------
(* Asking with a token. *)

\* getWithToken, or client.ts, with a token that was bought, perhaps by another.
ask(v) ==
  /\ at[v] \in Over
  /\ visits[v] < MaxVisits
  /\ visits' = [visits EXCEPT ![v] = @ + 1]
  /\ \E buyer \in Visitor : /\ bought[buyer] # Undefined
                            /\ asks' = [asks EXCEPT ![v] = bought[buyer]]
  /\ \E site \in Site \ {"merchant"} : via' = [via EXCEPT ![v] = site]
  /\ Goto(v, "asking")
  /\ UNCHANGED <<now, gateway, playground, reply, bought>>

isTokenValid_WhenStored(token) == stored[token] # Undefined
isTokenValid(token) == stored[token] # Undefined /\ stored[token] > now

\* The site asks the gateway.
verifyTokenWithGateway(v) ==
  /\ Goto(v, "verifying")
  /\ reply' = [reply EXCEPT ![v] = serializeTokenRequest(asks[v])]
  /\ UNCHANGED <<via, asks>>

\* The handler starts: only the playground knows tokens itself.
handle(v) ==
  /\ at[v] = "asking" /\ via[v] = "playground"
  /\ \/ isTokenValid(asks[v]) /\ End(v, "served")
     \/ ~isTokenValid(asks[v]) /\ verifyTokenWithGateway(v)
  /\ UNCHANGED <<now, gateway, playground, bought, visits>>

\* GET /content of the hub, and GET /token-content of the token hub.
content(v) ==
  /\ at[v] = "asking" /\ via[v] = "hub"
  /\ verifyTokenWithGateway(v)
  /\ UNCHANGED <<now, gateway, playground, bought, visits>>

tokenContent(v) ==
  /\ at[v] = "asking" /\ via[v] = "tokenHub"
  /\ verifyTokenWithGateway(v)
  /\ UNCHANGED <<now, gateway, playground, bought, visits>>

verifyToken_ByPayment(token, hub) ==
  ledger[token] # Undefined /\ ledger[token].createdAt = now
verifyToken(token, hub) == issued[token] = hub

acceptVerify(token, hub, failed) ==
  serializeTokenResponse(~failed /\ verifyToken(token, hub))

\* If the lookup fails, the token is not accepted.
Verify(v) ==
  LET token == deserializeTokenRequest(reply[v]) IN
  /\ at[v] = "verifying"
  /\ \E failed \in BOOLEAN :
       /\ reply' = [reply EXCEPT ![v] = acceptVerify(token, GatewayOf(via[v]), failed)]
       /\ Goto(v, IF failed THEN "doubted" ELSE "verified")
  /\ UNCHANGED <<now, gateway, playground, via, asks, bought, visits>>

\* GET /verify/:token of the hub, and GET /verify-token/:token of the token hub.
acceptToken(v) == GatewayOf(via[v]) = "hub" /\ Verify(v)
acceptTokenToken(v) == GatewayOf(via[v]) = "tokenHub" /\ Verify(v)

markVerified(token) ==
  /\ remember(token)
  /\ confirmed' = [confirmed EXCEPT ![token] = now]

\* The handlers go on with the gateway's answer.
resume(v) ==
  /\ at[v] \in {"verified", "doubted"} /\ via[v] = "playground"
  /\ \/ /\ deserializeTokenResponse(reply[v])
        /\ End(v, "served")
        /\ markVerified(asks[v])
     \/ /\ ~deserializeTokenResponse(reply[v])
        /\ End(v, "invalid")
        /\ UNCHANGED playground
  /\ UNCHANGED <<now, gateway, bought, visits>>

resumeContent(v) ==
  /\ at[v] \in {"verified", "doubted"} /\ via[v] = "hub"
  /\ End(v, IF deserializeTokenResponse(reply[v]) THEN "served" ELSE "unpaid")
  /\ UNCHANGED <<now, gateway, playground, bought, visits>>

resumeTokenContent(v) ==
  /\ at[v] \in {"verified", "doubted"} /\ via[v] = "tokenHub"
  /\ End(v, IF deserializeTokenResponse(reply[v]) THEN "served" ELSE "unpaid")
  /\ UNCHANGED <<now, gateway, playground, bought, visits>>

-----------------------------------------------------------------------------
(* Time and failures. *)

Tick == /\ now < MaxNow
        /\ now' = now + 1
        /\ UNCHANGED <<gateway, playground, visitor>>

\* An exchange breaks: the request or its answer is lost, or a process stops
\* before it has answered. What was stored stays.
lose(v) ==
  /\ at[v] \notin Over \cup {"buy"}
  /\ End(v, "failed")
  /\ UNCHANGED <<now, gateway, playground, bought, visits>>

\* The playground starts again, with its database in memory.
restart ==
  /\ \E token \in Token : stored[token] # Undefined
  /\ stored' = [token \in Token |-> Undefined]
  /\ LET Cut == {v \in Visitor : via[v] = "playground" /\ at[v] \in AtSite}
         Without(f) == [v \in Visitor |-> IF v \in Cut THEN Undefined ELSE f[v]]
     IN /\ at' = [v \in Visitor |-> IF v \in Cut THEN "failed" ELSE at[v]]
        /\ reply' = Without(reply) /\ asks' = Without(asks) /\ via' = Without(via)
  /\ UNCHANGED <<now, gateway, confirmed, bought, visits>>

Expired(token) == stored[token] # Undefined /\ stored[token] <= now

cleanupExpired ==
  /\ \E token \in Token : Expired(token)
  /\ stored' = [token \in Token |-> IF Expired(token) THEN Undefined ELSE stored[token]]
  /\ UNCHANGED <<now, gateway, confirmed, visitor>>

Exchange(v) ==
  \/ doPayment(v)
  \/ acceptPayment(v)
  \/ acceptTokenPayment(v)
  \/ forwardAcceptPayment(v)
  \/ didSendPayment(v)
  \/ handle(v)
  \/ content(v)
  \/ tokenContent(v)
  \/ acceptToken(v)
  \/ acceptTokenToken(v)
  \/ resume(v)
  \/ resumeContent(v)
  \/ resumeTokenContent(v)

Next ==
  \/ \E v \in Visitor : visit(v) \/ doPreflight(v) \/ ask(v) \/ Exchange(v) \/ lose(v)
  \/ Tick
  \/ restart
  \/ cleanupExpired

Spec == Init /\ [][Next]_vars
-----------------------------------------------------------------------------
(* Properties. *)

Place == Over \cup AtSite \cup {"buy", "paying", "paid"}

(* Every variable has its type. *)
TypeOK ==
  /\ now \in 1 .. MaxNow
  /\ stored \in [Token -> Nat \cup {Undefined}]
  /\ confirmed \in [Token -> (1 .. MaxNow) \cup {Undefined}]
  /\ issued \in [Token -> Gateway \cup {Undefined}]
  /\ at \in [Visitor -> Place]
  /\ via \in [Visitor -> Site \cup {Undefined}]
  /\ asks \in [Visitor -> Token \cup {Undefined}]
  /\ bought \in [Visitor -> Token \cup {Undefined}]
  /\ visits \in [Visitor -> 0 .. MaxVisits]

(* The payment the gateway would claim with is the one the buyer signed.    *)
Redeemable(token) ==
  LET row == ledger[token]
      payment == inflatePayment(row)
      signed == PaymentBy[token]
  IN /\ row # Undefined
     /\ payment # Unreadable
     /\ \A f \in {"channelId", "sender", "receiver", "value", "signature"} :
          payment[f] = signed[f]

(* Content is served only for a token of the site's own gateway, behind     *)
(* which that gateway has stored the payment, and what it reads back of the *)
(* payment is what was signed: whatever was forwarded, remembered, lost or  *)
(* forgotten on the way.                                                    *)
Serves(v) == at[v] # "served" /\ at'[v] = "served"
ServedIsPaid ==
  [][\A v \in Visitor : Serves(v) =>
       issued[asks[v]] = GatewayOf(via[v]) /\ Redeemable(asks[v])]_vars

(* The playground serves a token only within its time to live after the     *)
(* gateway last vouched for it.                                             *)
ServedIsFresh ==
  [][\A v \in Visitor : Serves(v) /\ via[v] = "playground" =>
       /\ confirmed'[asks[v]] # Undefined
       /\ \/ confirmed'[asks[v]] = now
          \/ now - confirmed'[asks[v]] < TTL]_vars

(* A visitor who asks with a token that was bought is refused only if it    *)
(* was bought from another gateway or the gateway's lookup failed: expiry,  *)
(* cleaning up and restarts cost another verification, never the content.   *)
Refuses(v) == at[v] \notin Over /\ at'[v] \in {"unpaid", "invalid"}
BoughtIsHonoured ==
  [][\A v \in Visitor : Refuses(v) =>
       at[v] = "doubted" \/ issued[asks[v]] # GatewayOf(via[v])]_vars
=============================================================================
