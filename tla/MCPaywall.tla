------------------------------- MODULE MCPaywall -------------------------------
(* Paywall with two visitors, and what module Wire's conversions give back *)
(* of what they are given.                                                 *)
EXTENDS Paywall

CONSTANTS ann, ben, merchant, t1

PaymentOf == [v \in Visitor |->
  [channelId |-> v, sender |-> v, receiver |-> merchant, price |-> 1, value |-> 2,
   channelValue |-> 3, signature |-> <<27, "r", v>>, meta |-> "", token |-> Undefined,
   createdAt |-> Undefined, tokenContract |-> Undefined]]

TermsOffered == [receiver |-> merchant, price |-> 1, gateway |-> "accept",
                 tokenContract |-> t1, meta |-> "demo",
                 channels |-> {[channelId |-> ann, spent |-> 0, sign |-> "s"]}]

-----------------------------------------------------------------------------
(* Round trips: what is read is what was written.                          *)

Payments == {[PaymentOf[v] EXCEPT !.token = t, !.tokenContract = c] :
               v \in Visitor, t \in {Undefined, ann}, c \in {Undefined, t1}}

ASSUME PaymentsSurvive ==
  \A payment \in Payments : deserializePayment(Json(serializePayment(payment))) = payment
ASSUME RequestsSurvive ==
  \A payment \in Payments :
    deserializePaymentRequest(Json(serializePaymentRequest(payment, Undefined))) = payment
ASSUME AnswersSurvive ==
  /\ \A v \in Visitor : deserializeTokenRequest(serializeTokenRequest(v)) = v
  /\ \A b \in BOOLEAN : deserializeTokenResponse(serializeTokenResponse(b)) = b
ASSUME TermsSurvive == deserializeTerms(serializeTerms(TermsOffered)) = TermsOffered

(* Table payment keeps what a claim needs, and drops the token contract.   *)
ASSUME RowsLoseTheContract ==
  \A payment \in Payments :
    inflatePayment(insertPayment(ann, payment, 1))
      = [payment EXCEPT !.token = ann, !.createdAt = 1, !.tokenContract = Undefined]

(* The date of a request for terms is written under a name it is not read  *)
(* from, and the amounts of a remote channel stay text.                    *)
ASSUME TermsRequestLosesItsDate ==
  \A d \in {Undefined, 1} :
    deserializeTermsRequest(serializeTermsRequest([sender |-> ann, datetime |-> d]))
      = [sender |-> ann, datetime |-> Undefined]

RemoteChannel == [sender |-> ann, receiver |-> merchant, channelId |-> ann, value |-> 3,
                  spent |-> 2, state |-> 0, tokenContract |-> t1,
                  settlementPeriod |-> 1, settlingUntil |-> 0]
ASSUME ListedAmountsAreText ==
  deserializePaymentChannel(serializePaymentChannel(RemoteChannel))
    = [RemoteChannel EXCEPT !.value = Text(@), !.spent = Text(@), !.settlingUntil = Text(@)]
=============================================================================
