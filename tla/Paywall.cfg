SPECIFICATION Spec
CONSTANTS
  ann = ann  ben = ben  merchant = merchant  t1 = t1
  Undefined = undefined  Unreadable = unreadable
  Visitor = {ann, ben}
  Site = {"playground", "hub", "tokenHub", "merchant"}
  Client = {"example", "tokenExample", "library"}
  PaymentBy <- PaymentOf  Terms <- TermsOffered
  PurchaseMeta = {undefined, "untyped"}
  OnPostgreSQL = {"hub", "tokenHub"}
  TTL = 2  MaxNow = 3  MaxVisits = 2
INVARIANTS TypeOK
PROPERTIES ServedIsPaid ServedIsFresh BoughtIsHonoured
CHECK_DEADLOCK FALSE
