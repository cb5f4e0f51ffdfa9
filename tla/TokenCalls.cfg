SPECIFICATION FairCalls
CONSTANTS
  alice = alice  bob = bob  This = this  Zero = zero  Deployer = bob
  Payer = alice  Payee = bob
  Account = {alice, bob}
  Token = {t1}
  Id = {c1}
  Supply <- TwoOfAlice
  Mintable = {}
  MintLimit = 2
  Value = {1, 3}
  Period = {1}
  Promise = {1}
  MaxUint = 9
  MaxBlock = 3
  Opening = {o1, o2}  Topping = {d1}  Closing = {s1, s2}  Claiming = {r1}
  SettlementPeriod = 1  MaxAtOnce = 1  MaxPromises = 1
  Faults = {"timeout"}
INVARIANTS AllowanceIsExact
PROPERTIES RefusedForAReason ReturnsAreReal EveryTokenCallEnds ImplementsLegacy
CHECK_DEADLOCK FALSE
