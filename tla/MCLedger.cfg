SPECIFICATION FairSpec
CONSTANTS
  ann = ann
  bob = bob
  cat = cat
  k1 = k1
  k2 = k2
  k3 = k3
  k4 = k4
  Member = {ann, bob, cat}
  NoHandle = NoHandle
  FeePct = 50
  L1Pct = 50
  L2Pct = 25
  Poster = {p1, p2}
  NoPoster = NoPoster
  Key = {k1, k2, k3, k4}
  NoKey = NoKey
  Request <- AllPosts
  MaxUnkeyed = 1
INVARIANTS
  BalancesMatchEntries
  NoMemberOverdrawn
  KeyPostsOnce
PROPERTIES
  ImplementsAtomicLedger
  EveryPostEnds
CHECK_DEADLOCK FALSE
