SPECIFICATION FairSpec
CONSTANTS
  alice = alice
  bob = bob
  Id = {c1, c2}
  Account = {alice, bob}
  Zero = zero
  Accepting = {alice, bob}
  Frugal = {bob}
  Deployer = bob
  Heir = {alice}
  Endowment <- AliceOnly
  Value = {0, 1}
  Period = {0, 1}
  Promise = {2}
  MaxUint = 3
INVARIANTS WellFormed
PROPERTIES EndsFairly TermsHold StepsBalance ImplementsLifecycle ImplementsLegacy AnnouncedIsClosed
