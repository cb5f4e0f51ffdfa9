CONSTANTS
  Sender = Sender  Receiver = Receiver  Nobody = Nobody
  NoId = NoId  NoPayment = NoPayment  Default = Default
  p1 = p1  p2 = p2  p3 = p3  p4 = p4  d1 = d1  s1 = s1  r1 = r1
  c1 = c1  c2 = c2  c3 = c3  o1 = o1
  Id = {c1, c2}  Purchase = {p1, p2, p3}  Opening = {}  Deposit = {d1}  Closing = {s1}  Claim = {}
  Price <- Tens  Extra <- Extras  Endowment <- Rich
  ReceiverEngine = "postgresql"  MinDeposit = 900  SettlementPeriod = 2  MinSettlementPeriod = 2
  CloseOnInvalidPayment = FALSE  MaxInFlight = 1  Faults = {"timeout", "refused"}
SPECIFICATION Spec
INVARIANTS BooksAgree EarningsAreRedeemable
CHECK_DEADLOCK FALSE
