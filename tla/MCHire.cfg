SPECIFICATION Spec
CONSTANTS
  ann = ann
  bob = bob
  cat = cat
  Member = {ann, bob, cat}
  NoHandle = NoHandle
  FeePct = 10
  L1Pct = 30
  L2Pct = 10
  Key <- HireKey
  NoKey = NoKey
  Request = {}
  Caller = {c1, c2}
  HireId = {1, 2}
  Credit = {20, 30}
  Funds = 40
  ReferredBy <- Recruited
  Isolated = {1}
INVARIANTS
  SettledStatesArePaid
  EscrowMatchesLegs
  NoHoldWithoutHire
PROPERTY
  KeepsContract
SYMMETRY CallerSymmetry
CHECK_DEADLOCK FALSE
