SPECIFICATION CasesSpec
CONSTANTS
  ann = ann
  bob = bob
  cat = cat
  Member = {ann, bob, cat}
  NoHandle = NoHandle
  FeePct = 10
  L1Pct = 30
  L2Pct = 10
  Gross <- SmallAmounts
  External <- NoneOrOne
INVARIANTS
  EveryPlanBalances
  NoSaleRefused
  AffiliatesAreOthers
CHECK_DEADLOCK FALSE
