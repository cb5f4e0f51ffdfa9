SPECIFICATION Spec
CONSTANTS
  alice = alice  bob = bob  t1 = t1  This = this  Zero = zero  Deployer = bob
  Account = {alice, bob}
  Token = {t1, t2}
  Id = {c1}
  Supply <- TwoOfAlice
  Mintable = {t2}
  MintLimit = 1
  Value = {0, 1}
  Period = {0, 1}
  Promise = {1}
  MaxUint = 2
  MaxBlock = 2
INVARIANTS WellFormed
PROPERTIES EndsFairly StepsBalance PullsAreConsented
