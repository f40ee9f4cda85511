\* Two records of two lots, each perhaps posted again, in batches of one or two,
\* one restart, proofs the gateway built and proofs made up.
SPECIFICATION LotPageSpec
CONSTANTS
  warm = warm
  cool = cool
  crate = crate
  pallet = pallet
  Leaf <- MCLeaf
  Lot <- MCLot
  LotOf <- MCLotOf
  Hot <- MCHot
  Path <- MCPath
  ZeroRoot = zero
  MaxLeaves = 2
  MaxAdds = 2
  MaxRestarts = 1
  Retries = TRUE
INVARIANTS
  GreenMeansCommitted
  HonestIsGreen
  BadgesAgree
  VerifiedIsCommitted
  LiveIsCurrent
CHECK_DEADLOCK FALSE
