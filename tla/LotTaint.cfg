\* A flagged crate rolled into a pallet that is already on the truck.
SPECIFICATION Spec
CONSTANTS
  Address = {ops}
  LotId = {zero, crate, pallet, truck}
  ZeroLot = zero
  NoAddress = nobody
  MaxSignatures = 0
SYMMETRY Symmetry
INVARIANT
  TaintReachesAncestors
CHECK_DEADLOCK FALSE
