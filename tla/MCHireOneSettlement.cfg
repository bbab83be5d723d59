SPECIFICATION Spec
CONSTANTS
  ann = ann
  bob = bob
  cat = cat
  Member = {ann, bob, cat}
  NoHandle = NoHandle
  FeePct = 10
  L1Pct = 30
  L2Pct = 10
  Key <- HireKey
  NoKey = NoKey
  Request = {}
  Caller = {c1, c2}
  HireId = {1}
  Credit = {30}
  Funds = 40
  ReferredBy <- Recruited
  Isolated = {}
INVARIANT
  OneSettlement
CHECK_DEADLOCK FALSE
